---- MODULE Spec2Model ----
(***************************************************************************)
(* Model of the process controller and stoppoint engine of libsdb:         *)
(* sdb::Process, sdb::BreakpointSite, sdb::Watchpoint,                     *)
(* sdb::StoppointCollection and sdb::Registers, together with the part of  *)
(* the Linux ptrace interface and of the inferior they act on.             *)
(*                                                                         *)
(* Every operation of the library is an operator from a state record to a  *)
(* state record; a thrown sdb::Error is the field err, and an operator     *)
(* applied to a state whose err is set returns the state unchanged, which  *)
(* is how an exception skips the rest of a handler.                        *)
(***************************************************************************)
EXTENDS Integers, Sequences, FiniteSets, TLC

(***************************************************************************)
(* Bounds of the model.                                                    *)
(***************************************************************************)
MaxAddr == 2
MaxId == 2

(***************************************************************************)
(* Program constants.                                                      *)
(***************************************************************************)
Int3 == 204
WordSize == 8
NumDebugRegs == 4
SIGTRAP == 5
SIGSTOP == 19
SIGKILL == 9
SyscallStopBit == 128
IdTypeMod == 65536

NoIndex == -1
NoErr == "none"

(***************************************************************************)
(* Bit vectors.  A register value is the set of its set bit positions, so  *)
(* that and, or, complement and shift are exact at every width.            *)
(***************************************************************************)
RECURSIVE Pow2(_)
Pow2(n) == IF n = 0 THEN 1 ELSE 2 * Pow2(n - 1)

Bits(n) == {i \in 0..15 : (n \div Pow2(i)) % 2 = 1}

Shl(v, n) == {b + n : b \in v}

AndNot(v, mask) == v \ mask

BitOr(v, w) == v \cup w

BitAnd(v, w) == v \cap w

Field(v, lo, width) == {b - lo : b \in {c \in v : c >= lo /\ c < lo + width}}

(***************************************************************************)
(* State.                                                                  *)
(***************************************************************************)
VARIABLES
  state_,                  \* Process::state_
  is_attached_,            \* Process::is_attached_
  terminate_on_end_,       \* Process::terminate_on_end_
  expecting_syscall_exit_, \* Process::expecting_syscall_exit_
  syscall_catch_policy_,   \* Process::syscall_catch_policy_
  registers_,              \* Registers::data_ (snapshot of the user area)
  breakpoint_sites_,       \* Process::breakpoint_sites_
  watchpoints_,            \* Process::watchpoints_
  site_next_id,            \* static id of GetNextID (breakpoint_site.cpp)
  watch_next_id,           \* static id of GetNextId (watchpoint.cpp)
  inferior,                \* the traced task as the kernel holds it
  in_wait,                 \* the debugger is blocked in WaitOnSignal
  last_op,                 \* the operation that ran last
  ret,                     \* the StopReason it returned
  err,                     \* the sdb::Error it threw, or "none"
  log,                     \* kernel requests it issued, in order
  read_ret,                \* the bytes a memory read returned
  dropped,                 \* the Process has been destroyed
  launch,                  \* Process::Launch in progress: parent, child, pipe
  elf,                     \* Elf::section_headers_ and Elf::load_bias_
  conv                     \* the last address conversion and its result

vars == <<state_, is_attached_, terminate_on_end_, expecting_syscall_exit_,
          syscall_catch_policy_, registers_, breakpoint_sites_, watchpoints_,
          site_next_id, watch_next_id, inferior, in_wait, last_op, ret, err,
          log, read_ret, dropped, launch, elf, conv>>

Ok(s) == s.err = NoErr

Throw(s, msg) == [s EXCEPT !.err = msg]

Logged(s, req, reg, address, val) ==
  [s EXCEPT !.log = Append(@, [req |-> req, reg |-> reg, address |-> address,
                                 val |-> val])]

(***************************************************************************)
(* The kernel's side of ptrace.  A request on a task that is not in a      *)
(* ptrace-stop fails with ESRCH, which the library turns into sdb::Error.  *)
(***************************************************************************)
Traced(s) == s.inferior.task = "stop" /\ s.inferior.traced

WriteUserArea(s, reg, val) ==
  IF ~Ok(s) THEN s
  ELSE IF ~Traced(s) THEN Throw(s, "Could not write to user area")
  ELSE Logged([s EXCEPT !.inferior.uregs[reg] = val], "POKEUSER", reg, -1, -1)

\* Registers::Write: the snapshot first, then the poke of the user area.
WriteById(s, reg, val) ==
  IF ~Ok(s) THEN s
  ELSE WriteUserArea([s EXCEPT !.registers_[reg] = val], reg, val)

ReadByIdAs(s, reg) == s.registers_[reg]

DrName(i) == <<"dr0", "dr1", "dr2", "dr3">>[i + 1]

(***************************************************************************)
(* Debug-register allocation (process.cpp).                                *)
(***************************************************************************)
ModeOk(mode) == mode \in {"write", "read_write", "execute"}

EncodeHardwareStoppointMode(mode) ==
  CASE mode = "write" -> 1
    [] mode = "read_write" -> 3
    [] mode = "execute" -> 0

SizeOk(size) == size \in {1, 2, 4, 8}

EncodeHardwareStoppointSize(size) ==
  CASE size = 1 -> 0
    [] size = 2 -> 1
    [] size = 4 -> 3
    [] size = 8 -> 2

SlotFree_ButLast(control_register, i) ==
  \/ i = NumDebugRegs - 1
  \/ BitAnd(control_register, Shl(Bits(3), i * 2)) = {}

SlotFree(control_register, i) ==
  BitAnd(control_register, Shl(Bits(3), i * 2)) = {}

HasFreeStoppointRegister(control_register) ==
  \E i \in 0..(NumDebugRegs - 1) : SlotFree(control_register, i)

\* the first slot, free or not
FindFreeStoppointRegister_First(control_register) == 0

\* the free slot with the largest index
FindFreeStoppointRegister_Last(control_register) ==
  CHOOSE i \in 0..(NumDebugRegs - 1) :
    /\ SlotFree(control_register, i)
    /\ \A j \in (i + 1)..(NumDebugRegs - 1) : ~SlotFree(control_register, j)

FindFreeStoppointRegister(control_register) ==
  CHOOSE i \in 0..(NumDebugRegs - 1) :
    /\ SlotFree(control_register, i)
    /\ \A j \in 0..(i - 1) : ~SlotFree(control_register, j)

\* Returns the state with the chosen index in field hw_index.
SetHardwareStoppoint(s, address, mode, size) ==
  LET control == ReadByIdAs(s, "dr7")
      free_space == FindFreeStoppointRegister(control)
      mode_flag == Bits(EncodeHardwareStoppointMode(mode))
      size_flag == Bits(EncodeHardwareStoppointSize(size))
      enable_bit == Shl(Bits(1), free_space * 2)
      mode_bits == Shl(mode_flag, free_space * 4 + 16)
      size_bits == Shl(size_flag, free_space * 4 + 18)
      clear_mask == BitOr(Shl(Bits(3), free_space * 2),
                          Shl(Bits(15), free_space * 4 + 16))
      masked == BitOr(AndNot(control, clear_mask),
                      BitOr(enable_bit, BitOr(mode_bits, size_bits)))
      \* the return of free_space, after the write of the control register
      Returned_index(s2) == [s2 EXCEPT !.hw_index = free_space]
      \* from the return of the write of the address register
      Encoded(s1) ==
        IF ~Ok(s1) THEN s1
        ELSE IF ~ModeOk(mode) THEN Throw(s1, "Invalid stoppoint mode")
        ELSE IF ~SizeOk(size) THEN Throw(s1, "Invalid stoppoint size")
        ELSE Returned_index(WriteById(s1, "dr7", masked))
  IN
  IF ~Ok(s) THEN s
  ELSE IF ~HasFreeStoppointRegister(control)
  THEN Throw(s, "No remaining hardware debug registers")
  ELSE Encoded(WriteById(s, DrName(free_space), address))

ClearHardwareStoppoint(s, index) ==
  IF ~Ok(s) THEN s
  ELSE
    LET clear_mask == BitOr(Shl(Bits(3), index * 2),
                            Shl(Bits(15), index + 16))
        \* from the return of the write of the address register
        Cleared(s1) ==
          IF ~Ok(s1) THEN s1
          ELSE WriteById(s1, "dr7",
                         AndNot(ReadByIdAs(s1, "dr7"), clear_mask))
    IN Cleared(WriteById(s, DrName(index), 0))

(***************************************************************************)
(* Inferior memory through ptrace.  PEEKDATA and POKEDATA move one 8-byte  *)
(* word; a word is the sequence of its bytes, lowest address first, so     *)
(* data & 0xff is its first element.                                       *)
(***************************************************************************)
DataBase == WordSize

MemTop == DataBase + WordSize - 1

CodeAddrs == 0..MaxAddr

Mapped(address, n) == address >= 0 /\ address + n - 1 <= MemTop

WordAt(mem, address) == [k \in 1..WordSize |-> mem[address + k - 1]]

PeekOk(s, address) == Traced(s) /\ Mapped(address, WordSize)

PokeData(s, address, word) ==
  IF ~Ok(s) THEN s
  ELSE Logged([s EXCEPT !.inferior.mem =
                 [a \in DOMAIN @ |->
                    IF a >= address /\ a < address + WordSize
                    THEN word[a - address + 1] ELSE @[a]]],
              "POKEDATA", "mem", address, word[1])

(***************************************************************************)
(* BreakpointSite (breakpoint_site.cpp).  i is the position of the site in *)
(* breakpoint_sites_.                                                      *)
(***************************************************************************)
\* an id taken from the size of the collection instead of the counter
NewBreakpointSite_Reuse(s, address, is_hardware, is_internal) ==
  [id |-> IF is_internal THEN -1 ELSE Len(s.breakpoint_sites_) + 1,
   address |-> address, is_enabled |-> FALSE, saved_data |-> 0,
   is_hardware |-> is_hardware, is_internal |-> is_internal,
   hardware_register_index |-> NoIndex]

NewBreakpointSite(s, address, is_hardware, is_internal) ==
  [id |-> IF is_internal THEN -1 ELSE s.site_next_id + 1,
   address |-> address, is_enabled |-> FALSE, saved_data |-> 0,
   is_hardware |-> is_hardware, is_internal |-> is_internal,
   hardware_register_index |-> NoIndex]

\* Enable without the test of is_enabled_
SiteEnable_NoGuard(s, i) ==
  LET site == s.breakpoint_sites_[i]
      data == WordAt(s.inferior.mem, site.address)
      data_with_int3 == [data EXCEPT ![1] = Int3]
      \* from the return of SetHardwareStoppoint
      Armed(s1) ==
        IF ~Ok(s1) THEN s1
        ELSE [s1 EXCEPT
                !.breakpoint_sites_[i].hardware_register_index = s1.hw_index,
                !.breakpoint_sites_[i].is_enabled = TRUE]
      \* from the return of the poke
      Patched(s1) ==
        [s1 EXCEPT !.breakpoint_sites_[i].saved_data = data[1],
                   !.breakpoint_sites_[i].is_enabled = TRUE]
  IN
  IF ~Ok(s) THEN s
  ELSE IF site.is_hardware
  THEN Armed(SetHardwareStoppoint(s, site.address, "execute", 1))
  ELSE IF ~PeekOk(s, site.address)
  THEN Throw(s, "Enabling breakpoint site failed")
  ELSE Patched(PokeData(Logged(s, "PEEKDATA", "mem", site.address, data[1]),
                        site.address, data_with_int3))

SiteEnable(s, i) ==
  LET site == s.breakpoint_sites_[i]
      data == WordAt(s.inferior.mem, site.address)
      data_with_int3 == [data EXCEPT ![1] = Int3]
      \* from the return of SetHardwareStoppoint
      Armed(s1) ==
        IF ~Ok(s1) THEN s1
        ELSE [s1 EXCEPT
                !.breakpoint_sites_[i].hardware_register_index = s1.hw_index,
                !.breakpoint_sites_[i].is_enabled = TRUE]
      \* from the return of the poke
      Patched(s1) ==
        [s1 EXCEPT !.breakpoint_sites_[i].saved_data = data[1],
                   !.breakpoint_sites_[i].is_enabled = TRUE]
  IN
  IF ~Ok(s) \/ site.is_enabled THEN s
  ELSE IF site.is_hardware
  THEN Armed(SetHardwareStoppoint(s, site.address, "execute", 1))
  ELSE IF ~PeekOk(s, site.address)
  THEN Throw(s, "Enabling breakpoint site failed")
  ELSE Patched(PokeData(Logged(s, "PEEKDATA", "mem", site.address, data[1]),
                        site.address, data_with_int3))

\* Disable writing back a word of zeros around the saved byte
ZeroWord_First == [k \in 1..WordSize |-> 0]

SiteDisable_NoMerge(s, i) ==
  LET site == s.breakpoint_sites_[i]
      data == WordAt(s.inferior.mem, site.address)
      restored_data == [ZeroWord_First EXCEPT ![1] = site.saved_data]
      \* from the return of ClearHardwareStoppoint
      Disarmed(s1) ==
        IF ~Ok(s1) THEN s1
        ELSE [s1 EXCEPT
                !.breakpoint_sites_[i].hardware_register_index = NoIndex,
                !.breakpoint_sites_[i].is_enabled = FALSE]
      \* from the return of the poke
      Restored(s1) == [s1 EXCEPT !.breakpoint_sites_[i].is_enabled = FALSE]
  IN
  IF ~Ok(s) \/ ~site.is_enabled THEN s
  ELSE IF site.is_hardware
  THEN Disarmed(ClearHardwareStoppoint(s, site.hardware_register_index))
  ELSE IF ~PeekOk(s, site.address)
  THEN Throw(s, "Disabling breakpoint site failed")
  ELSE Restored(PokeData(Logged(s, "PEEKDATA", "mem", site.address, data[1]),
                         site.address, restored_data))

SiteDisable(s, i) ==
  LET site == s.breakpoint_sites_[i]
      data == WordAt(s.inferior.mem, site.address)
      restored_data == [data EXCEPT ![1] = site.saved_data]
      \* from the return of ClearHardwareStoppoint
      Disarmed(s1) ==
        IF ~Ok(s1) THEN s1
        ELSE [s1 EXCEPT
                !.breakpoint_sites_[i].hardware_register_index = NoIndex,
                !.breakpoint_sites_[i].is_enabled = FALSE]
      \* from the return of the poke
      Restored(s1) == [s1 EXCEPT !.breakpoint_sites_[i].is_enabled = FALSE]
  IN
  IF ~Ok(s) \/ ~site.is_enabled THEN s
  ELSE IF site.is_hardware
  THEN Disarmed(ClearHardwareStoppoint(s, site.hardware_register_index))
  ELSE IF ~PeekOk(s, site.address)
  THEN Throw(s, "Disabling breakpoint site failed")
  ELSE Restored(PokeData(Logged(s, "PEEKDATA", "mem", site.address, data[1]),
                         site.address, restored_data))

(***************************************************************************)
(* Watchpoint (watchpoint.cpp, watchpoint.hpp).                            *)
(***************************************************************************)
ZeroWord == [k \in 1..WordSize |-> 0]

\* address & (size - 1), for the sizes and addresses of the model
Misaligned(address, size) ==
  BitAnd(Bits(address), Bits(size - 1)) # {}

NewWatchpoint(s, address, mode, size) ==
  [id |-> s.watch_next_id + 1, address |-> address, mode |-> mode,
   size |-> size, is_enabled |-> FALSE, hardware_register_index |-> NoIndex,
   data |-> ZeroWord, previous_data |-> ZeroWord]

WatchEnable(s, i) ==
  LET w == s.watchpoints_[i]
      \* from the return of SetHardwareStoppoint
      Armed(s1) ==
        IF ~Ok(s1) THEN s1
        ELSE [s1 EXCEPT
                !.watchpoints_[i].hardware_register_index = s1.hw_index,
                !.watchpoints_[i].is_enabled = TRUE]
  IN
  IF ~Ok(s) \/ w.is_enabled THEN s
  ELSE Armed(SetHardwareStoppoint(s, w.address, w.mode, w.size))

WatchDisable(s, i) ==
  LET w == s.watchpoints_[i]
      \* from the return of ClearHardwareStoppoint
      Disarmed(s1) ==
        IF ~Ok(s1) THEN s1
        ELSE [s1 EXCEPT !.watchpoints_[i].is_enabled = FALSE]
  IN
  IF ~Ok(s) \/ ~w.is_enabled THEN s
  ELSE Disarmed(ClearHardwareStoppoint(s, w.hardware_register_index))

(***************************************************************************)
(* StoppointCollection (stoppoint_collection.hpp).  Find* return the       *)
(* position of the first match, or 0 for end().                            *)
(***************************************************************************)
FindById(points, id) ==
  IF \E i \in 1..Len(points) : points[i].id = id
  THEN CHOOSE i \in 1..Len(points) :
         /\ points[i].id = id
         /\ \A j \in 1..(i - 1) : points[j].id # id
  ELSE 0

FindByAddress(points, address) ==
  IF \E i \in 1..Len(points) : points[i].address = address
  THEN CHOOSE i \in 1..Len(points) :
         /\ points[i].address = address
         /\ \A j \in 1..(i - 1) : points[j].address # address
  ELSE 0

ContainsId(points, id) == FindById(points, id) # 0

ContainsAddress(points, address) == FindByAddress(points, address) # 0

\* GetByAddress returning the first stoppoint of the collection
GetByAddress_First(s, points, address) ==
  IF Len(points) = 0
  THEN Throw(s, "StopPoint with given address not found")
  ELSE [s EXCEPT !.ret = points[1]]

\* GetById: the stoppoint FindById points at, or the error
GetById(s, points, id) ==
  IF FindById(points, id) = 0
  THEN Throw(s, "Invalid StopPoint id")
  ELSE [s EXCEPT !.ret = points[FindById(points, id)]]

\* GetByAddress: the stoppoint FindByAddress points at, or the error
GetByAddress(s, points, address) ==
  IF FindByAddress(points, address) = 0
  THEN Throw(s, "StopPoint with given address not found")
  ELSE [s EXCEPT !.ret = points[FindByAddress(points, address)]]

EnabledStopPointAtAddress(points, address) ==
  /\ ContainsAddress(points, address)
  /\ points[FindByAddress(points, address)].is_enabled

IsInRange_Exclusive(point, low, high) ==
  low < point.address /\ high > point.address

IsInRange(point, low, high) == low <= point.address /\ high > point.address

GetInRegion(points, low, high) ==
  SelectSeq(points, LAMBDA p : IsInRange(p, low, high))

Erase(points, i) ==
  [k \in 1..(Len(points) - 1) |-> IF k < i THEN points[k] ELSE points[k + 1]]

(***************************************************************************)
(* The inferior.  It is an arbitrary program: the instruction at rip is a  *)
(* choice c made when it executes, except that a byte 0xCC at rip is the   *)
(* int3 instruction.  Control falls through to the next address and wraps  *)
(* to 0 after the last code address.  The task states are those of the     *)
(* kernel: "run", "stop" (ptrace-stop), "zombie" (dead, status not yet     *)
(* collected) and "gone" (reaped).                                         *)
(***************************************************************************)
Event(kind, info, si_code, cause, slots, at) ==
  [kind |-> kind, info |-> info, si_code |-> si_code, cause |-> cause,
   slots |-> slots, at |-> at]

NoEvent == Event("none", 0, "none", "none", {}, -1)

\* the status of a stop; cause, slots and at record what the inferior did
StopEvent(info, si_code, cause, slots) ==
  Event("stopped", info, si_code, cause, slots, -1)

ExitEvent == Event("exited", 0, "none", "exit", {}, -1)

KillEvent == Event("signaled", SIGKILL, "none", "kill", {}, -1)

NextRip(rip) == IF rip >= MaxAddr THEN 0 ELSE rip + 1

SlotEnabled(dr7, i) == BitAnd(dr7, Shl(Bits(3), i * 2)) # {}

SlotMode(dr7, i) == Field(dr7, 16 + 4 * i, 2)

SlotLen(dr7, i) ==
  LET f == Field(dr7, 18 + 4 * i, 2) IN
  CASE f = {} -> 1
    [] f = {0} -> 2
    [] f = {0, 1} -> 4
    [] f = {1} -> 8

\* the debug-register slots the CPU reports for an access of the given kind
ExecSlots(u) ==
  {i \in 0..(NumDebugRegs - 1) :
     /\ SlotEnabled(u.dr7, i)
     /\ SlotMode(u.dr7, i) = {}
     /\ u[DrName(i)] = u.rip}

DataSlots(u, kind, address) ==
  {i \in 0..(NumDebugRegs - 1) :
     /\ SlotEnabled(u.dr7, i)
     /\ \/ SlotMode(u.dr7, i) = {0, 1}
        \/ SlotMode(u.dr7, i) = {0} /\ kind = "store"
     /\ u[DrName(i)] <= address
     /\ address < u[DrName(i)] + SlotLen(u.dr7, i)}

Instr(kind, nr, val, exits) ==
  [kind |-> kind, nr |-> nr, val |-> val, exits |-> exits]

Nop == Instr("nop", 0, 0, FALSE)

Load == Instr("load", 0, 0, FALSE)

Stores == {Instr("store", 0, v, FALSE) : v \in {1, 2}}

\* a system call returns, or ends the process
Syscalls == {Instr("syscall", n, 0, e) : n \in {1, 2}, e \in BOOLEAN}

\* a stop that leaves no status for the wait of the tracer
Stopped_Unreported(inf, ev) == [inf EXCEPT !.task = "stop"]

Stopped(inf, ev) == [inf EXCEPT !.task = "stop", !.wait_status = ev]

Exited(inf) ==
  [inf EXCEPT !.task = "zombie", !.in_syscall = FALSE,
              !.wait_status = ExitEvent]

\* One step of a running inferior.  c is the instruction found at rip; for a
\* task resumed from a syscall-entry-stop, c.exits tells whether the call
\* in progress ends the process.  dr6 holds the bits B0..B3; the si_code of
\* a debug trap is TRAP_TRACE when it is a single step, TRAP_HWBKPT otherwise.
InferiorStep(inf, c) ==
  LET u == inf.uregs IN
  IF inf.in_syscall
  THEN IF c.exits THEN Exited(inf)
       ELSE LET done == [inf EXCEPT !.in_syscall = FALSE] IN
            CASE inf.resume_req = "SYSCALL" ->
                   Stopped(done, StopEvent(SIGTRAP + SyscallStopBit, "SI_KERNEL",
                                           "syscall_exit", {}))
              [] inf.resume_req = "SINGLESTEP" ->
                   Stopped(done, StopEvent(SIGTRAP, "TRAP_BRKPT", "step", {}))
              [] OTHER -> done
  ELSE IF inf.sig_pending
  THEN Stopped([inf EXCEPT !.sig_pending = FALSE],
               StopEvent(SIGSTOP, "SI_USER", "signal", {}))
  ELSE IF ExecSlots(u) # {} /\ ~inf.rf
  THEN Stopped([inf EXCEPT !.rf = TRUE, !.uregs.dr6 = ExecSlots(u)],
               StopEvent(SIGTRAP, "TRAP_HWBKPT", "hw", ExecSlots(u)))
  ELSE IF inf.mem[u.rip] = Int3
  THEN Stopped([inf EXCEPT !.rf = FALSE, !.uregs.rip = u.rip + 1,
                           !.executed = Append(@, [address |-> u.rip,
                                                   byte |-> Int3])],
               Event("stopped", SIGTRAP, "SI_KERNEL", "int3", {}, u.rip))
  ELSE
    LET ran == [inf EXCEPT !.rf = FALSE, !.uregs.rip = NextRip(u.rip),
                           !.executed = Append(@, [address |-> u.rip,
                                                   byte |-> inf.mem[u.rip]])]
        hit == IF c.kind \in {"store", "load"}
               THEN DataSlots(u, c.kind, DataBase) ELSE {}
        step == inf.resume_req = "SINGLESTEP"
    IN
    IF c.kind = "syscall"
    THEN LET called == [ran EXCEPT !.uregs.orig_rax = c.nr] IN
         IF inf.resume_req = "SYSCALL"
         THEN Stopped([called EXCEPT !.in_syscall = TRUE],
                      StopEvent(SIGTRAP + SyscallStopBit, "SI_KERNEL",
                                "syscall_entry", {}))
         ELSE IF c.exits THEN Exited(called)
         ELSE IF step
         THEN Stopped(called, StopEvent(SIGTRAP, "TRAP_BRKPT", "step", {}))
         ELSE called
    ELSE
      LET after == IF c.kind = "store"
                   THEN [ran EXCEPT !.mem[DataBase] = c.val] ELSE ran
      IN IF hit # {} \/ step
         THEN Stopped([after EXCEPT !.uregs.dr6 = hit],
                      StopEvent(SIGTRAP,
                                IF step THEN "TRAP_TRACE" ELSE "TRAP_HWBKPT",
                                IF hit # {} THEN "hw" ELSE "step", hit))
         ELSE after

\* The inferior runs until the wait the debugger is blocked in can return:
\* a single-stepped task reports in one step, a task sent a signal while it
\* completes a system call in two.
RunToEvent(inf, c) ==
  LET i1 == IF inf.task = "run" THEN InferiorStep(inf, c) ELSE inf
  IN IF i1.task = "run" THEN InferiorStep(i1, c) ELSE i1

(***************************************************************************)
(* Kernel requests that resume and wait.                                   *)
(***************************************************************************)
PtraceResume_DeadOk(s, req, msg) ==
  IF ~Ok(s) THEN s
  ELSE IF s.inferior.task \in {"zombie", "gone"}
  THEN Logged(s, req, "none", -1, -1)
  ELSE IF ~Traced(s) THEN Throw(s, msg)
  ELSE Logged([s EXCEPT !.inferior.task = "run",
                        !.inferior.resume_req = req,
                        !.inferior.unwaited =
                           @ \/ s.inferior.wait_status.kind # "none",
                        !.inferior.wait_status = NoEvent],
              req, "none", -1, -1)

\* PTRACE_CONT, PTRACE_SYSCALL, PTRACE_SINGLESTEP (signal argument 0).  The
\* kernel takes the request in any ptrace-stop; the status of a stop that no
\* wait has collected is lost with it, which field unwaited records.
PtraceResume(s, req, msg) ==
  IF ~Ok(s) THEN s
  ELSE IF ~Traced(s) THEN Throw(s, msg)
  ELSE Logged([s EXCEPT !.inferior.task = "run",
                        !.inferior.resume_req = req,
                        !.inferior.unwaited =
                           @ \/ s.inferior.wait_status.kind # "none",
                        !.inferior.wait_status = NoEvent],
              req, "none", -1, -1)

\* the inferior runs while the debugger is blocked in the wait that follows
\* a single-step request
Run(s, c) ==
  IF ~Ok(s) THEN s ELSE [s EXCEPT !.inferior = RunToEvent(@, c)]

\* waitpid(pid_, &wait_status, 0); the status is left in field status
Waitpid(s) ==
  IF ~Ok(s) THEN s
  ELSE IF s.inferior.task = "gone" THEN Throw(s, "waitpid failed")
  ELSE Logged([s EXCEPT !.status = s.inferior.wait_status,
                        !.inferior.wait_status = NoEvent,
                        !.inferior.task =
                           IF @ = "zombie" THEN "gone" ELSE @],
              "WAITPID", "none", -1, -1)

CanWait(inf) == inf.task = "gone" \/ inf.wait_status.kind # "none"

(***************************************************************************)
(* Process (process.cpp).  The StopReason under construction is field ret. *)
(***************************************************************************)
NoSyscall == [present |-> FALSE, id |-> 0, entry |-> FALSE]

\* si_code, cause, slots and at carry the siginfo and what the inferior did
StopReason(wait_status) ==
  [reason |-> CASE wait_status.kind = "exited" -> "Exited"
                [] wait_status.kind = "signaled" -> "Terminated"
                [] wait_status.kind = "stopped" -> "Stopped",
   info |-> wait_status.info,
   trap_reason |-> "nullopt",
   syscall_info |-> NoSyscall,
   si_code |-> wait_status.si_code,
   cause |-> wait_status.cause,
   slots |-> wait_status.slots,
   at |-> wait_status.at]

NoReason == StopReason(Event("stopped", 0, "none", "none", {}, -1))

GetPc(s) == ReadByIdAs(s, "rip")

SetPc_NoWrite(s, address) == s

SetPc(s, address) == WriteById(s, "rip", address)

ReadAllRegisters(s) ==
  IF ~Ok(s) THEN s
  ELSE IF ~Traced(s) THEN Throw(s, "Could not read GPR registers")
  ELSE [s EXCEPT !.registers_ = s.inferior.uregs]

AugmentStopReason_KeepFlag(s) ==
  IF ~Ok(s) THEN s
  ELSE IF ~Traced(s) THEN Throw(s, "Failed to get siginfo")
  ELSE IF s.ret.info = SIGTRAP + SyscallStopBit
  THEN LET id == ReadByIdAs(s, "orig_rax") % IdTypeMod IN
       IF s.expecting_syscall_exit_
       THEN [s EXCEPT !.ret.syscall_info =
                         [present |-> TRUE, id |-> id, entry |-> FALSE],
                      !.expecting_syscall_exit_ = FALSE,
                      !.ret.info = SIGTRAP,
                      !.ret.trap_reason = "Syscall"]
       ELSE [s EXCEPT !.ret.syscall_info =
                         [present |-> TRUE, id |-> id, entry |-> TRUE],
                      !.expecting_syscall_exit_ = TRUE,
                      !.ret.info = SIGTRAP,
                      !.ret.trap_reason = "Syscall"]
  ELSE [s EXCEPT !.ret.trap_reason =
                    IF s.ret.info # SIGTRAP THEN "Unknown"
                    ELSE CASE s.ret.si_code = "TRAP_TRACE" -> "SingleStep"
                           [] s.ret.si_code = "SI_KERNEL" -> "SoftwareBreakpoint"
                           [] s.ret.si_code = "TRAP_HWBKPT" -> "HardwareBreakpoint"
                           [] OTHER -> "Unknown"]

AugmentStopReason(s) ==
  IF ~Ok(s) THEN s
  ELSE IF ~Traced(s) THEN Throw(s, "Failed to get siginfo")
  ELSE IF s.ret.info = SIGTRAP + SyscallStopBit
  THEN LET id == ReadByIdAs(s, "orig_rax") % IdTypeMod IN
       IF s.expecting_syscall_exit_
       THEN [s EXCEPT !.ret.syscall_info =
                         [present |-> TRUE, id |-> id, entry |-> FALSE],
                      !.expecting_syscall_exit_ = FALSE,
                      !.ret.info = SIGTRAP,
                      !.ret.trap_reason = "Syscall"]
       ELSE [s EXCEPT !.ret.syscall_info =
                         [present |-> TRUE, id |-> id, entry |-> TRUE],
                      !.expecting_syscall_exit_ = TRUE,
                      !.ret.info = SIGTRAP,
                      !.ret.trap_reason = "Syscall"]
  ELSE [s EXCEPT !.expecting_syscall_exit_ = FALSE,
                 !.ret.trap_reason =
                    IF s.ret.info # SIGTRAP THEN "Unknown"
                    ELSE CASE s.ret.si_code = "TRAP_TRACE" -> "SingleStep"
                           [] s.ret.si_code = "SI_KERNEL" -> "SoftwareBreakpoint"
                           [] s.ret.si_code = "TRAP_HWBKPT" -> "HardwareBreakpoint"
                           [] OTHER -> "Unknown"]

\* index of the least significant set bit of the status register
Ctz(status) == CHOOSE i \in status : \A j \in status : i <= j

\* the variant returned: index 0 holds a breakpoint-site id, 1 a watchpoint id
GetCurrentHardwareStoppoint(s) ==
  LET status == ReadByIdAs(s, "dr6")
      index == Ctz(status)
      addr == ReadByIdAs(s, DrName(index))
  IN IF ContainsAddress(s.breakpoint_sites_, addr)
     THEN [index |-> 0,
           id |-> s.breakpoint_sites_[FindByAddress(s.breakpoint_sites_,
                                                    addr)].id]
     ELSE IF ContainsAddress(s.watchpoints_, addr)
     THEN [index |-> 1,
           id |-> s.watchpoints_[FindByAddress(s.watchpoints_, addr)].id]
     ELSE [index |-> -1, id |-> 0]

ReadOk(s, address, amount) ==
  s.inferior.task \in {"run", "stop"} /\ Mapped(address, amount)

ReadMemory(s, address, amount) ==
  [k \in 1..amount |-> s.inferior.mem[address + k - 1]]

\* Watchpoint::UpdateData
UpdateData(s, i) ==
  LET w == s.watchpoints_[i] IN
  IF ~Ok(s) THEN s
  ELSE IF ~ReadOk(s, w.address, w.size)
  THEN Throw(s, "Could not read process memory")
  ELSE LET read == ReadMemory(s, w.address, w.size)
           new_data == [k \in 1..WordSize |->
                          IF k <= w.size THEN read[k] ELSE 0]
       IN [s EXCEPT !.watchpoints_[i].previous_data = w.data,
                    !.watchpoints_[i].data = new_data]

Resume_NoReenable(s, c) ==
  LET pc == GetPc(s)
      i == FindByAddress(s.breakpoint_sites_, pc)
      stepped ==
        IF EnabledStopPointAtAddress(s.breakpoint_sites_, pc)
        THEN Waitpid(Run(PtraceResume(SiteDisable(s, i), "SINGLESTEP",
                                      "Failed to single step"), c))
        ELSE s
      request == IF s.syscall_catch_policy_.mode = "None"
                 THEN "CONT" ELSE "SYSCALL"
      \* from the return of the continue request
      Continued(resumed) ==
        IF Ok(resumed) THEN [resumed EXCEPT !.state_ = "Running"] ELSE resumed
  IN Continued(PtraceResume(stepped, request, "Could not resume"))

\* the state is set to Running whether or not the request succeeded
Resume_AlwaysRunning(s, c) ==
  LET pc == GetPc(s)
      i == FindByAddress(s.breakpoint_sites_, pc)
      stepped ==
        IF EnabledStopPointAtAddress(s.breakpoint_sites_, pc)
        THEN SiteEnable(
               Waitpid(Run(PtraceResume(SiteDisable(s, i), "SINGLESTEP",
                                        "Failed to single step"), c)), i)
        ELSE s
      request == IF s.syscall_catch_policy_.mode = "None"
                 THEN "CONT" ELSE "SYSCALL"
      Continued(resumed) == [resumed EXCEPT !.state_ = "Running"]
  IN Continued(PtraceResume(stepped, request, "Could not resume"))

Resume(s, c) ==
  LET pc == GetPc(s)
      i == FindByAddress(s.breakpoint_sites_, pc)
      stepped ==
        IF EnabledStopPointAtAddress(s.breakpoint_sites_, pc)
        THEN SiteEnable(
               Waitpid(Run(PtraceResume(SiteDisable(s, i), "SINGLESTEP",
                                        "Failed to single step"), c)), i)
        ELSE s
      request == IF s.syscall_catch_policy_.mode = "None"
                 THEN "CONT" ELSE "SYSCALL"
      \* from the return of the continue request
      Continued(resumed) ==
        IF Ok(resumed) THEN [resumed EXCEPT !.state_ = "Running"] ELSE resumed
  IN Continued(PtraceResume(stepped, request, "Could not resume"))

MaybeResumeFromSyscall_NoFilter(s, c) == s

\* the inferior is resumed and the reason of the stop is returned at once
MaybeResumeFromSyscall_NoWait(s, c) ==
  IF ~Ok(s) THEN s
  ELSE IF /\ s.syscall_catch_policy_.mode = "Some"
          /\ s.ret.syscall_info.id \notin s.syscall_catch_policy_.to_catch
  THEN Resume(s, c)
  ELSE s

MaybeResumeFromSyscall(s, c) ==
  IF ~Ok(s) THEN s
  ELSE IF /\ s.syscall_catch_policy_.mode = "Some"
          /\ s.ret.syscall_info.id \notin s.syscall_catch_policy_.to_catch
  THEN LET \* from the return of Resume: the nested WaitOnSignal blocks
           Blocked(resumed) ==
             IF Ok(resumed) THEN [resumed EXCEPT !.in_wait = TRUE]
             ELSE resumed
       IN Blocked(Resume(s, c))
  ELSE s

\* One pass of WaitOnSignal from the return of waitpid.  It ends with
\* in_wait set when the pass resumed the inferior and is blocked in the
\* nested WaitOnSignal, and with the returned StopReason in ret otherwise.
WaitOnSignal(s, c) ==
  LET \* from the return of AugmentStopReason
      Augmented(s2) ==
        LET instruction_begin == GetPc(s2) - 1 IN
        IF ~Ok(s2) \/ s2.ret.info # SIGTRAP THEN s2
        ELSE IF /\ s2.ret.trap_reason = "SoftwareBreakpoint"
                /\ ContainsAddress(s2.breakpoint_sites_, instruction_begin)
                /\ s2.breakpoint_sites_[FindByAddress(s2.breakpoint_sites_,
                                          instruction_begin)].is_enabled
        THEN SetPc(s2, instruction_begin)
        ELSE IF s2.ret.trap_reason = "HardwareBreakpoint"
        THEN LET id == GetCurrentHardwareStoppoint(s2) IN
             IF id.index = 1
             THEN UpdateData(s2, FindById(s2.watchpoints_, id.id))
             ELSE IF id.index = 0 THEN s2
             ELSE Throw(s2, "StopPoint with given address not found")
        ELSE IF s2.ret.trap_reason = "Syscall"
        THEN MaybeResumeFromSyscall(s2, c)
        ELSE s2
      \* from the construction of the StopReason and the state change
      Reasoned(s1) ==
        IF ~(s1.is_attached_ /\ s1.state_ = "Stopped") THEN s1
        ELSE Augmented(AugmentStopReason(ReadAllRegisters(s1)))
      \* from the return of waitpid
      Waited(s0) ==
        IF ~Ok(s0) THEN s0
        ELSE Reasoned([s0 EXCEPT !.ret = StopReason(s0.status),
                                 !.state_ = StopReason(s0.status).reason])
  IN Waited(Waitpid([s EXCEPT !.in_wait = FALSE]))

StepInstruction_NoReenable(s, c) ==
  LET pc == GetPc(s)
      to_reenable == IF EnabledStopPointAtAddress(s.breakpoint_sites_, pc)
                     THEN FindByAddress(s.breakpoint_sites_, pc) ELSE 0
      disabled == IF to_reenable # 0 THEN SiteDisable(s, to_reenable) ELSE s
      \* from the return of the single-step request
      Stepped(requested) ==
        IF Ok(requested) THEN WaitOnSignal(Run(requested, c), c)
        ELSE requested
  IN Stepped(PtraceResume(disabled, "SINGLESTEP", "Could not single step"))

StepInstruction(s, c) ==
  LET pc == GetPc(s)
      to_reenable == IF EnabledStopPointAtAddress(s.breakpoint_sites_, pc)
                     THEN FindByAddress(s.breakpoint_sites_, pc) ELSE 0
      disabled == IF to_reenable # 0 THEN SiteDisable(s, to_reenable) ELSE s
      \* from the return of the single-step request
      Stepped(requested) ==
        IF Ok(requested) THEN WaitOnSignal(Run(requested, c), c)
        ELSE requested
      \* from the return of WaitOnSignal
      Reenabled(reason) ==
        IF to_reenable # 0 THEN SiteEnable(reason, to_reenable) ELSE reason
  IN Reenabled(Stepped(PtraceResume(disabled, "SINGLESTEP",
                                    "Could not single step")))

(***************************************************************************)
(* The state as a record, and the assignment of a record to the state.     *)
(* A handler starts with no error, an empty request log and an empty list  *)
(* of instructions executed by the inferior.                               *)
(***************************************************************************)
Cur ==
  [state_ |-> state_, is_attached_ |-> is_attached_,
   terminate_on_end_ |-> terminate_on_end_,
   expecting_syscall_exit_ |-> expecting_syscall_exit_,
   syscall_catch_policy_ |-> syscall_catch_policy_,
   registers_ |-> registers_, breakpoint_sites_ |-> breakpoint_sites_,
   watchpoints_ |-> watchpoints_, site_next_id |-> site_next_id,
   watch_next_id |-> watch_next_id,
   inferior |-> [inferior EXCEPT !.executed = <<>>],
   in_wait |-> in_wait, ret |-> ret, err |-> NoErr, log |-> <<>>,
   read_ret |-> <<>>,
   dropped |-> dropped, hw_index |-> NoIndex, status |-> 0]

\* last_op after an operation on a stoppoint or a collection
StoppointOp == "stoppoint"

\* last_op after RemoveByAddress
RemoveOp == "RemoveByAddress"

\* last_op after RemoveById
RemoveByIdOp == "RemoveById"

\* last_op after GetById and after GetByAddress
GetByIdOp == "GetById"

GetByAddressOp == "GetByAddress"

Commit(s, op) ==
  \E t \in {s} :
    /\ state_' = t.state_
    /\ is_attached_' = t.is_attached_
    /\ terminate_on_end_' = t.terminate_on_end_
    /\ expecting_syscall_exit_' = t.expecting_syscall_exit_
    /\ syscall_catch_policy_' = t.syscall_catch_policy_
    /\ registers_' = t.registers_
    /\ breakpoint_sites_' = t.breakpoint_sites_
    /\ watchpoints_' = t.watchpoints_
    /\ site_next_id' = t.site_next_id
    /\ watch_next_id' = t.watch_next_id
    /\ inferior' = t.inferior
    /\ in_wait' = t.in_wait
    /\ ret' = IF op \in {"WaitOnSignal", "StepInstruction", GetByIdOp,
                          GetByAddressOp}
              THEN t.ret ELSE NoReason
    /\ err' = t.err
    /\ log' = IF op \in {StoppointOp, RemoveByIdOp} THEN <<>> ELSE t.log
    /\ read_ret' = t.read_ret
    /\ dropped' = t.dropped
    /\ last_op' = op
    /\ UNCHANGED <<launch, elf, conv>>

(***************************************************************************)
(* Operations of the caller.  The caller runs while the debugger is not    *)
(* blocked in a wait and the Process exists.                               *)
(***************************************************************************)
Idle == ~in_wait /\ ~dropped /\ launch.parent = "returned"

\* without the ContainsAddress test
CreateBreakpointSite_NoCheck(address, hardware, internal) ==
  /\ Idle
  /\ site_next_id < MaxId
  /\ LET s == Cur IN
     Commit([s EXCEPT
               !.breakpoint_sites_ =
                  Append(@, NewBreakpointSite(s, address, hardware, internal)),
               !.site_next_id = IF internal THEN @ ELSE @ + 1],
            StoppointOp)

CreateBreakpointSite(address, hardware, internal) ==
  /\ Idle
  /\ site_next_id < MaxId
  /\ LET s == Cur IN
     IF ContainsAddress(s.breakpoint_sites_, address)
     THEN Commit(Throw(s, "Breakpoint site already created at this address"),
                 StoppointOp)
     ELSE Commit([s EXCEPT
                    !.breakpoint_sites_ =
                       Append(@, NewBreakpointSite(s, address, hardware,
                                                   internal)),
                    !.site_next_id = IF internal THEN @ ELSE @ + 1],
                 StoppointOp)

CreateWatchpoint(address, mode, size) ==
  /\ Idle
  /\ watch_next_id < MaxId
  /\ LET s == Cur IN
     IF ContainsAddress(s.watchpoints_, address)
     THEN Commit(Throw(s, "Watchpoint already created at address"),
                 StoppointOp)
     ELSE IF Misaligned(address, size)
     THEN Commit(Throw(s, "Watchpoints must be aligned to their size"),
                 StoppointOp)
     ELSE Commit([s EXCEPT
                    !.watchpoints_ =
                       Append(@, NewWatchpoint(s, address, mode, size)),
                    !.watch_next_id = @ + 1],
                 StoppointOp)

\* GetBreakpointSites().GetById(id).Enable()
EnableSite(id) ==
  /\ Idle
  /\ ContainsId(breakpoint_sites_, id)
  /\ Commit(SiteEnable(Cur, FindById(breakpoint_sites_, id)), StoppointOp)

DisableSite(id) ==
  /\ Idle
  /\ ContainsId(breakpoint_sites_, id)
  /\ Commit(SiteDisable(Cur, FindById(breakpoint_sites_, id)), StoppointOp)

\* GetBreakpointSites().RemoveById(id)
RemoveSiteById(id) ==
  /\ Idle
  /\ ContainsId(breakpoint_sites_, id)
  /\ LET it == FindById(breakpoint_sites_, id)
         Erased(s) ==
           IF Ok(s) THEN [s EXCEPT !.breakpoint_sites_ = Erase(@, it)] ELSE s
     IN Commit(Erased(SiteDisable(Cur, it)), RemoveByIdOp)

EnableWatchpoint(id) ==
  /\ Idle
  /\ ContainsId(watchpoints_, id)
  /\ Commit(WatchEnable(Cur, FindById(watchpoints_, id)), StoppointOp)

DisableWatchpoint(id) ==
  /\ Idle
  /\ ContainsId(watchpoints_, id)
  /\ Commit(WatchDisable(Cur, FindById(watchpoints_, id)),
            StoppointOp)

RemoveWatchpointById(id) ==
  /\ Idle
  /\ ContainsId(watchpoints_, id)
  /\ LET it == FindById(watchpoints_, id)
         Erased(s) ==
           IF Ok(s) THEN [s EXCEPT !.watchpoints_ = Erase(@, it)] ELSE s
     IN Commit(Erased(WatchDisable(Cur, it)), RemoveByIdOp)

\* GetBreakpointSites().GetByAddress(address).Enable()
EnableSiteAt(address) ==
  /\ Idle
  /\ ContainsAddress(breakpoint_sites_, address)
  /\ Commit(SiteEnable(Cur, FindByAddress(breakpoint_sites_, address)),
            StoppointOp)

\* erasing the site without disabling it
RemoveSiteByAddress_NoDisable(address) ==
  /\ Idle
  /\ ContainsAddress(breakpoint_sites_, address)
  /\ LET it == FindByAddress(breakpoint_sites_, address)
         Erased(s) == [s EXCEPT !.breakpoint_sites_ = Erase(@, it)]
     IN Commit(Erased(Cur), RemoveOp)

\* GetBreakpointSites().RemoveByAddress(address)
RemoveSiteByAddress(address) ==
  /\ Idle
  /\ ContainsAddress(breakpoint_sites_, address)
  /\ LET it == FindByAddress(breakpoint_sites_, address)
         Erased(s) ==
           IF Ok(s) THEN [s EXCEPT !.breakpoint_sites_ = Erase(@, it)] ELSE s
     IN Commit(Erased(SiteDisable(Cur, it)), RemoveOp)

\* GetWatchpoints().RemoveByAddress(address)
RemoveWatchpointByAddress(address) ==
  /\ Idle
  /\ ContainsAddress(watchpoints_, address)
  /\ LET it == FindByAddress(watchpoints_, address)
         Erased(s) ==
           IF Ok(s) THEN [s EXCEPT !.watchpoints_ = Erase(@, it)] ELSE s
     IN Commit(Erased(WatchDisable(Cur, it)), RemoveOp)

SetSyscallCatchPolicy(info) ==
  /\ Idle
  /\ Commit([Cur EXCEPT !.syscall_catch_policy_ = info],
            "SetSyscallCatchPolicy")

\* GetRegisters().WriteById(reg, val)
DoWriteRegister(reg, val) ==
  /\ Idle
  /\ Commit(WriteById(Cur, reg, val), "WriteRegister")

DoResume(c) ==
  /\ Idle
  /\ Commit(Resume(Cur, c), "Resume")

DoStepInstruction(c) ==
  /\ Idle
  /\ \E s \in {StepInstruction(Cur, c)} :
       /\ ~s.in_wait
       /\ Commit(s, "StepInstruction")

\* WaitOnSignal from the moment waitpid can return: called by the user, or
\* the nested call that MaybeResumeFromSyscall is blocked in.
DoWaitOnSignal(c) ==
  /\ ~dropped
  /\ CanWait(inferior)
  /\ Commit(WaitOnSignal(Cur, c), "WaitOnSignal")

(***************************************************************************)
(* Process::ReadMemoryWithoutTraps and Process::WriteMemory.               *)
(***************************************************************************)
RECURSIVE RestoreSaved(_, _, _, _)
RestoreSaved(memory, sites, k, address) ==
  IF k > Len(sites) THEN memory
  ELSE LET site == sites[k] IN
       IF ~site.is_enabled \/ site.is_hardware
       THEN RestoreSaved(memory, sites, k + 1, address)
       ELSE LET offset == site.address - address IN
            RestoreSaved([memory EXCEPT ![offset + 1] = site.saved_data],
                         sites, k + 1, address)

ReadMemoryWithoutTraps(s, address, amount) ==
  IF ~ReadOk(s, address, amount)
  THEN Throw(s, "Could not read process memory")
  ELSE
    LET memory == ReadMemory(s, address, amount)
        sites == GetInRegion(s.breakpoint_sites_, address, address + amount)
    IN [s EXCEPT !.read_ret = RestoreSaved(memory, sites, 1, address)]

DoReadMemoryWithoutTraps(address, amount) ==
  /\ Idle
  /\ Commit(Logged(ReadMemoryWithoutTraps(Cur, address, amount),
                   "READ", "mem", address, amount),
            "ReadMemoryWithoutTraps")

\* the trailing word is filled with zeroes instead of the bytes read
RECURSIVE WriteWords_NoMerge(_, _, _, _)
WriteWords_NoMerge(s, address, data, written) ==
  IF ~Ok(s) \/ written >= Len(data) THEN s
  ELSE
    LET remaining == Len(data) - written
        word == [k \in 1..WordSize |->
                   IF k <= remaining THEN data[written + k] ELSE 0]
    IN
    IF ~(Traced(s) /\ Mapped(address + written, WordSize))
    THEN Throw(s, "Failed to write memory")
    ELSE WriteWords_NoMerge(PokeData(s, address + written, word), address,
                            data, written + WordSize)

RECURSIVE WriteWords(_, _, _, _)
WriteWords(s, address, data, written) ==
  IF ~Ok(s) \/ written >= Len(data) THEN s
  ELSE
    LET remaining == Len(data) - written IN
    IF remaining < WordSize /\ ~ReadOk(s, address + written, WordSize)
    THEN Throw(s, "Could not read process memory")
    ELSE
      LET read == ReadMemory(s, address + written, WordSize)
          word == [k \in 1..WordSize |->
                     IF k <= remaining THEN data[written + k] ELSE read[k]]
      IN
      IF ~(Traced(s) /\ Mapped(address + written, WordSize))
      THEN Throw(s, "Failed to write memory")
      ELSE WriteWords(PokeData(s, address + written, word), address, data,
                      written + WordSize)

WriteMemory(address, data) ==
  /\ Idle
  /\ Commit(WriteWords(Cur, address, data, 0), "WriteMemory")

(***************************************************************************)
(* Process::~Process.  Errors of the kernel calls are ignored there.       *)
(***************************************************************************)
Kill(inf, sig) ==
  IF inf.task \notin {"run", "stop"} THEN inf
  ELSE IF sig = SIGKILL
  THEN [inf EXCEPT !.task = "zombie", !.wait_status = KillEvent]
  ELSE [inf EXCEPT !.sig_pending = TRUE]

Reap(s, c) ==
  LET Collected(ran) ==
        LET Kept(waited) == IF Ok(waited) THEN waited ELSE ran
        IN Kept(Waitpid(ran))
  IN Collected(Run(s, c))

Detach(s) ==
  IF ~Traced(s) THEN s
  ELSE [s EXCEPT !.inferior.task = "run", !.inferior.traced = FALSE,
                 !.inferior.resume_req = "CONT",
                 !.inferior.wait_status = NoEvent]

\* a request of the destructor, logged with the condition of the inferior
\* at the time of the request
Requested(s, req, sig) == Logged(s, req, s.inferior.task, -1, sig)

Destroy(s, c) ==
  LET Stopped_first(s0) ==
        IF s0.is_attached_ /\ s0.state_ = "Running"
        THEN Reap([Requested(s0, "KILL", SIGSTOP) EXCEPT
                     !.inferior = Kill(@, SIGSTOP)], c)
        ELSE s0
      Detached(stopped) ==
        IF s.is_attached_ THEN Detach(Requested(stopped, "DETACH", 0))
        ELSE stopped
      Ended_process(detached) ==
        IF s.terminate_on_end_
        THEN Reap([Requested(detached, "KILL", SIGKILL) EXCEPT
                     !.inferior = Kill(@, SIGKILL)], c)
        ELSE detached
      Gone(killed) == [killed EXCEPT !.dropped = TRUE]
  IN Gone(Ended_process(Detached(Stopped_first(s))))

Drop(c) ==
  /\ Idle
  /\ Commit(Destroy(Cur, c), "Drop")

(***************************************************************************)
(* The environment: the inferior runs, the shell's SIGINT handler sends it *)
(* SIGSTOP, and something else kills it.                                   *)
(***************************************************************************)
\* a step of the environment leaves the Process alone; the record of the
\* last operation (last_op, ret, err, log) is of no operation
EnvUnchanged ==
  /\ UNCHANGED <<state_, is_attached_, terminate_on_end_,
                 expecting_syscall_exit_, syscall_catch_policy_, registers_,
                 breakpoint_sites_, watchpoints_, site_next_id, watch_next_id,
                 in_wait, dropped, launch, elf, conv>>
  /\ last_op' = "none"
  /\ ret' = NoReason
  /\ err' = NoErr
  /\ log' = <<>>
  /\ read_ret' = <<>>

InferiorRun(c) ==
  /\ inferior.task = "run"
  /\ inferior.traced
  /\ inferior' = [InferiorStep(inferior, c) EXCEPT !.executed = <<>>]
  /\ EnvUnchanged

HandleSigint ==
  /\ ~dropped
  /\ inferior.task \in {"run", "stop"}
  /\ ~inferior.sig_pending
  /\ inferior' = Kill(inferior, SIGSTOP)
  /\ EnvUnchanged

ExternalKill ==
  /\ ~dropped
  /\ inferior.task \in {"run", "stop"}
  /\ inferior' = Kill(inferior, SIGKILL)
  /\ EnvUnchanged

(***************************************************************************)
(* Initial state: the Process as Launch (debug) or Attach returns it, the  *)
(* inferior in its first ptrace-stop, registers read, nothing planted.     *)
(***************************************************************************)
OrigByte == 243

InitialMem ==
  [a \in 0..MemTop |->
     IF a = 1 THEN Int3 ELSE IF a < DataBase THEN OrigByte ELSE 0]

InitialRegs ==
  [rip |-> 0, orig_rax |-> 0, dr0 |-> 0, dr1 |-> 0, dr2 |-> 0, dr3 |-> 0,
   dr6 |-> {}, dr7 |-> {}]

InitialInferior ==
  [task |-> "stop", wait_status |-> NoEvent, mem |-> InitialMem,
   uregs |-> InitialRegs, in_syscall |-> FALSE, resume_req |-> "CONT",
   rf |-> FALSE, sig_pending |-> FALSE, traced |-> TRUE, unwaited |-> FALSE,
   executed |-> <<>>]

CatchNone == [mode |-> "None", to_catch |-> {}]

\* Launch after it has returned the Process of a traced child
LaunchDone ==
  [parent |-> "returned", child |-> "execed", pid |-> 1, debug |-> TRUE,
   stdout_replacement |-> FALSE, pipe |-> <<>>, parent_write_fd |-> FALSE,
   child_write_fd |-> FALSE, data |-> <<>>, error |-> NoErr,
   failed_call |-> "none"]

\* an Elf without sections, not loaded; no conversion made
NoElf == [section_headers_ |-> <<>>, load_bias_ |-> 0]

NoConv == [op |-> "none"]

\* the Process of a traced child that has stopped at its first instruction
InitTracee(terminate_on_end) ==
  /\ launch = LaunchDone
  /\ state_ = "Stopped"
  /\ is_attached_ = TRUE
  /\ terminate_on_end_ = terminate_on_end
  /\ expecting_syscall_exit_ = FALSE
  /\ syscall_catch_policy_ = CatchNone
  /\ registers_ = InitialRegs
  /\ breakpoint_sites_ = <<>>
  /\ watchpoints_ = <<>>
  /\ site_next_id = 0
  /\ watch_next_id = 0
  /\ inferior = InitialInferior
  /\ in_wait = FALSE
  /\ last_op = "Launch"
  /\ ret = NoReason
  /\ err = NoErr
  /\ log = <<>>
  /\ read_ret = <<>>
  /\ dropped = FALSE

InitProcess(terminate_on_end) ==
  /\ InitTracee(terminate_on_end)
  /\ elf = NoElf
  /\ conv = NoConv

Ids == 1..MaxId

(***************************************************************************)
(* SpecHw: hardware breakpoint sites and watchpoints of a stopped          *)
(* inferior are created, enabled, disabled and removed.                    *)
(***************************************************************************)
Modes == {"write", "read_write", "execute"}

Sizes == {1, 2, 4, 8}

InitHw == InitProcess(TRUE)

NextHw ==
  \/ \E a \in {0, MaxAddr} : CreateBreakpointSite(a, TRUE, FALSE)
  \/ \E m \in Modes, z \in Sizes : CreateWatchpoint(DataBase, m, z)
  \/ \E id \in Ids : EnableSite(id)
  \/ \E id \in Ids : DisableSite(id)
  \/ \E id \in Ids : RemoveSiteById(id)
  \/ \E id \in Ids : EnableWatchpoint(id)
  \/ \E id \in Ids : DisableWatchpoint(id)
  \/ \E id \in Ids : RemoveWatchpointById(id)

SpecHw == InitHw /\ [][NextHw]_vars

(***************************************************************************)
(* C1.  Every enabled hardware stoppoint with register index i has DRi     *)
(* equal to its address, DR7 enable bit 2i set, and the DR7 mode and size  *)
(* fields of slot i equal to the encodings of its own mode and size; at    *)
(* most four slots are enabled.                                            *)
(***************************************************************************)
SlotConsistent(regs, i, address, mode, size) ==
  /\ i \in 0..(NumDebugRegs - 1)
  /\ regs[DrName(i)] = address
  /\ 2 * i \in regs.dr7
  /\ Field(regs.dr7, 16 + 4 * i, 2) = Bits(EncodeHardwareStoppointMode(mode))
  /\ Field(regs.dr7, 18 + 4 * i, 2) = Bits(EncodeHardwareStoppointSize(size))

EnabledSlots(regs) ==
  {i \in 0..(NumDebugRegs - 1) : SlotEnabled(regs.dr7, i)}

C1_Dr7Consistent ==
  /\ \A k \in 1..Len(breakpoint_sites_) :
       LET b == breakpoint_sites_[k] IN
       b.is_enabled /\ b.is_hardware =>
         SlotConsistent(inferior.uregs, b.hardware_register_index, b.address,
                        "execute", 1)
  /\ \A k \in 1..Len(watchpoints_) :
       LET w == watchpoints_[k] IN
       w.is_enabled =>
         SlotConsistent(inferior.uregs, w.hardware_register_index, w.address,
                        w.mode, w.size)
  /\ Cardinality(EnabledSlots(inferior.uregs)) <= NumDebugRegs

(***************************************************************************)
(* The instruction the inferior executes while a handler is blocked in the *)
(* wait of a single step.  A handler that issues no single step executes   *)
(* none, and the inferior it resumed is run by InferiorRun.                *)
(***************************************************************************)
AtEnabledSite ==
  EnabledStopPointAtAddress(breakpoint_sites_, registers_.rip)

ResumeInstrs(instrs) == IF AtEnabledSite THEN instrs ELSE {Nop}

WaitInstrs(instrs) ==
  IF syscall_catch_policy_.mode = "Some" /\ inferior.task = "stop"
     /\ EnabledStopPointAtAddress(breakpoint_sites_, inferior.uregs.rip)
  THEN instrs ELSE {Nop}

(***************************************************************************)
(* SpecSys: an inferior that makes system calls is resumed, stepped and    *)
(* waited for under every syscall catch policy, with a software breakpoint *)
(* site that can sit at the address a system call returns to.              *)
(***************************************************************************)
Policies ==
  {CatchNone, [mode |-> "All", to_catch |-> {}],
   [mode |-> "Some", to_catch |-> {1}]}

SysInstrs == {Nop} \cup Syscalls

InitSys == InitProcess(TRUE)

NextSys ==
  \/ CreateBreakpointSite(0, FALSE, FALSE)
  \/ \E id \in Ids : EnableSite(id)
  \/ \E id \in Ids : DisableSite(id)
  \/ \E info \in Policies : SetSyscallCatchPolicy(info)
  \/ \E c \in ResumeInstrs(SysInstrs) : DoResume(c)
  \/ \E c \in SysInstrs : DoStepInstruction(c)
  \/ \E c \in WaitInstrs(SysInstrs) : DoWaitOnSignal(c)
  \/ \E c \in SysInstrs : InferiorRun(c)

SpecSys == InitSys /\ [][NextSys]_vars

Returned(op) == last_op = op /\ ~in_wait /\ err = NoErr

(***************************************************************************)
(* C2.  With the syscall catch policy Some(S), WaitOnSignal never returns  *)
(* a stop whose trap reason is Syscall and whose syscall id is not in S.   *)
(***************************************************************************)
C2_OnlyCaughtSyscalls ==
  (/\ Returned("WaitOnSignal")
   /\ ret.trap_reason = "Syscall"
   /\ syscall_catch_policy_.mode = "Some")
  => ret.syscall_info.id \in syscall_catch_policy_.to_catch

\* WaitOnSignal returns a caught system call of the inferior under Some(S)
C2_Witness ==
  /\ Returned("WaitOnSignal")
  /\ ret.trap_reason = "Syscall"
  /\ syscall_catch_policy_.mode = "Some"
  /\ ret.syscall_info.id \in syscall_catch_policy_.to_catch
  /\ ~ret.syscall_info.entry

(***************************************************************************)
(* C3.  The entry flag of a Syscall stop returned by WaitOnSignal is true  *)
(* exactly when the inferior stopped at the entry of the system call and   *)
(* false exactly when it stopped at its exit.                              *)
(***************************************************************************)
C3_EntryFlagMatchesKernel ==
  (Returned("WaitOnSignal") /\ ret.trap_reason = "Syscall")
  => (ret.syscall_info.entry <=> ret.cause = "syscall_entry")

\* C3 for a caller that collects every stop with a wait before it resumes
\* the inferior again
C3_EntryFlagMatchesKernel_Waited ==
  (/\ Returned("WaitOnSignal")
   /\ ret.trap_reason = "Syscall"
   /\ ~inferior.unwaited)
  => (ret.syscall_info.entry <=> ret.cause = "syscall_entry")

\* a syscall exit is returned after the site at the return address was
\* stepped over
C3_Witness ==
  /\ Returned("WaitOnSignal")
  /\ ret.trap_reason = "Syscall"
  /\ ret.cause = "syscall_exit"
  /\ ~ret.syscall_info.entry
  /\ ~inferior.unwaited
  /\ breakpoint_sites_ # <<>>

(***************************************************************************)
(* SpecBp: software breakpoint sites are planted in the code of an         *)
(* inferior that is resumed, stepped, waited for, interrupted and killed.  *)
(* The inferior's own code holds an int3 at address 1.                     *)
(***************************************************************************)
BpAddrs == {0, 1}

BpInstrs == {Nop, Instr("syscall", 1, 0, FALSE), Instr("syscall", 1, 0, TRUE)}

InitBp == InitProcess(TRUE)

NextBp ==
  \/ \E a \in BpAddrs : CreateBreakpointSite(a, FALSE, FALSE)
  \/ \E id \in Ids : EnableSite(id)
  \/ \E id \in Ids : DisableSite(id)
  \/ \E c \in ResumeInstrs(BpInstrs) : DoResume(c)
  \/ \E c \in BpInstrs : DoStepInstruction(c)
  \/ DoWaitOnSignal(Nop)
  \/ \E c \in BpInstrs : InferiorRun(c)
  \/ HandleSigint
  \/ ExternalKill

SpecBp == InitBp /\ [][NextBp]_vars

Ended == state_ \in {"Exited", "Terminated"}

(***************************************************************************)
(* C5.  Once the state is Exited or Terminated, every Resume fails with an *)
(* error, and no Resume, StepInstruction or WaitOnSignal changes the state *)
(* again.                                                                  *)
(***************************************************************************)
C5_EndedIsFinal ==
  [][Ended => /\ state_' = state_
              /\ last_op' = "Resume" => err' # NoErr]_vars

\* a Resume has failed on a process that exited
C5_Witness == state_ = "Exited" /\ last_op = "Resume" /\ err # NoErr

(***************************************************************************)
(* The requests of the last operation.                                     *)
(***************************************************************************)
Reqs == [k \in 1..Len(log) |-> log[k].req]

SeqPrefix(p, q) ==
  Len(p) <= Len(q) /\ \A k \in 1..Len(p) : p[k] = q[k]

\* the operation began by disabling a software site: the site at its pc
OverSite(op) == last_op = op /\ Len(log) > 0 /\ log[1].req = "PEEKDATA"

SiteOver == breakpoint_sites_[FindByAddress(breakpoint_sites_, log[1].address)]

\* the PC of the inferior when the operation was called
StartPc ==
  IF inferior.executed # <<>> THEN inferior.executed[1].address
  ELSE inferior.uregs.rip

\* the operation was called with the PC of the inferior at that site
AtSite(op) == OverSite(op) /\ StartPc = SiteOver.address

StepOverOrder ==
  <<"PEEKDATA", "POKEDATA", "SINGLESTEP", "WAITPID", "PEEKDATA", "POKEDATA">>

Continues == {"CONT", "SYSCALL"}

C7_StepOverOrder ==
  OverSite("Resume") =>
    /\ \/ SeqPrefix(Reqs, StepOverOrder)
       \/ \E r \in Continues : Reqs = Append(StepOverOrder, r)
    /\ Len(log) >= 6 =>
         /\ log[2].address = SiteOver.address
         /\ log[2].val = SiteOver.saved_data
         /\ log[6].address = SiteOver.address
         /\ log[6].val = Int3
    /\ err = NoErr =>
         /\ Len(log) = 7
         /\ state_ = "Running"
         /\ SiteOver.is_enabled
         /\ inferior.mem[SiteOver.address] = Int3

\* a Resume has stepped over the site at its pc and continued
C7_Witness ==
  /\ OverSite("Resume")
  /\ err = NoErr
  /\ Len(log) = 7
  /\ log[7].req = "CONT"
  /\ state_ = "Running"
  /\ Len(inferior.executed) = 1

(***************************************************************************)
(* C10.  When WaitOnSignal returns a stop caused by the int3 of an enabled *)
(* software breakpoint site at A, GetPc() is A and the rewound PC has been *)
(* written to the inferior.  For a stop that is not a software-breakpoint  *)
(* trap with an enabled site one byte below the PC, WaitOnSignal leaves    *)
(* the PC as the kernel reported it.                                       *)
(***************************************************************************)
PcWritten == \E k \in 1..Len(log) : log[k].req = "POKEUSER" /\ log[k].reg = "rip"

C10_PcFixup ==
  (Returned("WaitOnSignal") /\ state_ = "Stopped") =>
    /\ GetPc(Cur) = inferior.uregs.rip
    /\ (ret.cause = "int3"
        /\ EnabledStopPointAtAddress(breakpoint_sites_, ret.at))
       => GetPc(Cur) = ret.at /\ PcWritten
    /\ PcWritten =>
         /\ ret.trap_reason = "SoftwareBreakpoint"
         /\ EnabledStopPointAtAddress(breakpoint_sites_, GetPc(Cur))
    /\ (~PcWritten /\ ret.cause = "int3") => GetPc(Cur) = ret.at + 1

\* WaitOnSignal has returned the trap of the enabled site at address 0
C10_Witness ==
  /\ Returned("WaitOnSignal")
  /\ ret.cause = "int3"
  /\ ret.at = 0
  /\ EnabledStopPointAtAddress(breakpoint_sites_, 0)
  /\ GetPc(Cur) = 0
  /\ inferior.uregs.rip = 0

(***************************************************************************)
(* SpecMem: software and hardware breakpoint sites of a stopped inferior   *)
(* are created, enabled, disabled and removed, and its code is read with   *)
(* ReadMemoryWithoutTraps.                                                 *)
(***************************************************************************)
MaxRead == 3

InitMem == InitProcess(TRUE)

NextMem ==
  \/ \E a \in CodeAddrs, h \in BOOLEAN : CreateBreakpointSite(a, h, FALSE)
  \/ \E id \in Ids : EnableSite(id)
  \/ \E id \in Ids : DisableSite(id)
  \/ \E id \in Ids : RemoveSiteById(id)
  \/ \E a \in CodeAddrs, n \in 1..MaxRead : DoReadMemoryWithoutTraps(a, n)

SpecMem == InitMem /\ [][NextMem]_vars

\* the enabled software sites of the region, disabled one after the other
RECURSIVE DisabledInRegion(_, _, _, _)
DisabledInRegion(s, k, low, high) ==
  IF k > Len(s.breakpoint_sites_) THEN s
  ELSE LET site == s.breakpoint_sites_[k] IN
       IF site.is_enabled /\ ~site.is_hardware /\ IsInRange(site, low, high)
       THEN DisabledInRegion(SiteDisable(s, k), k + 1, low, high)
       ELSE DisabledInRegion(s, k + 1, low, high)

SoftwareSiteAt(address) ==
  \E k \in 1..Len(breakpoint_sites_) :
    /\ breakpoint_sites_[k].address = address
    /\ breakpoint_sites_[k].is_enabled
    /\ ~breakpoint_sites_[k].is_hardware

(***************************************************************************)
(* C8.  ReadMemoryWithoutTraps(a, n) returns, at each offset, the saved    *)
(* original byte of the enabled software site at that address, and the raw *)
(* byte of the inferior where there is none: the bytes ReadMemory(a, n)    *)
(* returns once those sites are disabled.  Disabled sites and hardware     *)
(* sites do not alter the result.                                          *)
(***************************************************************************)
C8_MemoryTransparency ==
  (last_op = "ReadMemoryWithoutTraps" /\ err = NoErr) =>
    LET a == log[1].address
        n == log[1].val
    IN /\ Len(read_ret) = n
       /\ \A k \in 1..n :
            read_ret[k] =
              IF SoftwareSiteAt(a + k - 1)
              THEN breakpoint_sites_[FindByAddress(breakpoint_sites_,
                                                   a + k - 1)].saved_data
              ELSE inferior.mem[a + k - 1]
       /\ read_ret = ReadMemory(DisabledInRegion(Cur, 1, a, a + n), a, n)

\* a read over an enabled software site, a disabled site and the int3 of the
\* inferior's own code returned the original bytes
C8_Witness ==
  /\ last_op = "ReadMemoryWithoutTraps"
  /\ err = NoErr
  /\ log[1].address = 0
  /\ Len(read_ret) = MaxRead
  /\ SoftwareSiteAt(0)
  /\ inferior.mem[0] = Int3
  /\ read_ret = <<OrigByte, Int3, OrigByte>>
  /\ Len(breakpoint_sites_) = 2

(***************************************************************************)
(* SpecWatch: watchpoints on the inferior's data, and a breakpoint site at *)
(* the watched address, while the inferior loads and stores.               *)
(***************************************************************************)
WatchModes == {"write", "read_write"}

WatchSizes == {1, 8}

WatchInstrs == {Nop, Load} \cup Stores

InitWatch == InitProcess(TRUE)

NextWatch ==
  \/ \E m \in WatchModes, z \in WatchSizes : CreateWatchpoint(DataBase, m, z)
  \/ CreateBreakpointSite(DataBase, TRUE, FALSE)
  \/ \E id \in Ids : EnableWatchpoint(id)
  \/ \E id \in Ids : DisableWatchpoint(id)
  \/ DoResume(Nop)
  \/ DoWaitOnSignal(Nop)
  \/ \E c \in WatchInstrs : InferiorRun(c)

SpecWatch == InitWatch /\ [][NextWatch]_vars

\* the value Watchpoint::UpdateData reads: size bytes, zero-extended
WatchedValue(mem, w) ==
  [k \in 1..WordSize |-> IF k <= w.size THEN mem[w.address + k - 1] ELSE 0]

(***************************************************************************)
(* C9.  When WaitOnSignal returns a stop caused by an enabled watchpoint   *)
(* w, w's previous_data is the value w's data had before the stop and w's  *)
(* data is the size bytes at w's address in the inferior, whatever other   *)
(* stoppoints the Process holds.                                           *)
(***************************************************************************)
C9_WatchpointData ==
  [][(Returned("WaitOnSignal")' /\ ret'.cause = "hw") =>
       \A k \in 1..Len(watchpoints_) :
         (/\ watchpoints_[k].is_enabled
          /\ watchpoints_[k].hardware_register_index \in ret'.slots)
         => /\ watchpoints_'[k].previous_data = watchpoints_[k].data
            /\ watchpoints_'[k].data =
                 WatchedValue(inferior'.mem, watchpoints_[k])]_vars

(***************************************************************************)
(* SpecDrop: a Process attached to a running program, with software and    *)
(* hardware stoppoints, is destroyed; the program is detached and lives on.*)
(***************************************************************************)
InitDrop == InitProcess(FALSE)

NextDrop ==
  \/ \E h \in BOOLEAN : CreateBreakpointSite(IF h THEN MaxAddr ELSE 0, h, FALSE)
  \/ CreateWatchpoint(DataBase, "write", WordSize)
  \/ \E id \in Ids : EnableSite(id)
  \/ \E id \in Ids : DisableSite(id)
  \/ \E id \in Ids : EnableWatchpoint(id)
  \/ DoResume(Nop)
  \/ DoWaitOnSignal(Nop)
  \/ InferiorRun(Nop)
  \/ Drop(Nop)

SpecDrop == InitDrop /\ [][NextDrop]_vars

(***************************************************************************)
(* C4.  Once the Process is dropped, every stoppoint it owned has been     *)
(* disabled: the inferior that lives on holds the original byte at the     *)
(* address of every software breakpoint site and no enabled debug register *)
(* slot.                                                                   *)
(***************************************************************************)
C4_DropDisablesStoppoints ==
  (dropped /\ inferior.task \in {"run", "stop"}) =>
    /\ \A k \in 1..Len(breakpoint_sites_) :
         LET site == breakpoint_sites_[k] IN
         (site.is_enabled /\ ~site.is_hardware)
         => inferior.mem[site.address] = site.saved_data
    /\ EnabledSlots(inferior.uregs) = {}

(***************************************************************************)
(* SpecColl: breakpoint sites (software, hardware, internal) and           *)
(* watchpoints of every size a caller can pass are created, enabled,       *)
(* disabled and removed by id and by address in a stopped inferior.        *)
(***************************************************************************)
WatchAddrs == {DataBase, DataBase + 4}

\* the address and the size of the CreateWatchpoint calls
WatchCreates == {<<DataBase, 1>>, <<DataBase, 3>>, <<DataBase + 4, 8>>}

InitColl == InitProcess(TRUE)

NextColl ==
  \/ \E a \in BpAddrs, h \in BOOLEAN, internal \in BOOLEAN :
       CreateBreakpointSite(a, h, internal)
  \/ \E az \in WatchCreates : CreateWatchpoint(az[1], "write", az[2])
  \/ \E a \in BpAddrs : EnableSiteAt(a)
  \/ \E id \in Ids : DisableSite(id)
  \/ \E id \in Ids : RemoveSiteById(id)
  \/ \E a \in BpAddrs : RemoveSiteByAddress(a)
  \/ \E id \in Ids : EnableWatchpoint(id)
  \/ \E id \in Ids : DisableWatchpoint(id)
  \/ \E id \in Ids : RemoveWatchpointById(id)
  \/ \E a \in WatchAddrs : RemoveWatchpointByAddress(a)

SpecColl == InitColl /\ [][NextColl]_vars

(***************************************************************************)
(* C11.  Every watchpoint held by the Process has an address that is a     *)
(* multiple of its size, whatever address and size CreateWatchpoint was    *)
(* given.                                                                  *)
(***************************************************************************)
C11_WatchpointsAligned ==
  \A k \in 1..Len(watchpoints_) :
    /\ watchpoints_[k].size > 0
    /\ watchpoints_[k].address % watchpoints_[k].size = 0

UniqueAddresses(points) ==
  \A i, j \in 1..Len(points) :
    points[i].address = points[j].address => i = j

CreateSiteAt(a) ==
  \E h \in BOOLEAN, internal \in BOOLEAN : CreateBreakpointSite(a, h, internal)

CreateWatchpointAt(a) ==
  \E az \in WatchCreates : az[1] = a /\ CreateWatchpoint(a, "write", az[2])

(***************************************************************************)
(* C15.  No two breakpoint sites have the same address and no two          *)
(* watchpoints have the same address, whatever was created and removed;    *)
(* creating a stoppoint at an address its collection already holds fails   *)
(* with an error and leaves the collection unchanged.                      *)
(***************************************************************************)
C15_UniqueAddresses ==
  /\ [](UniqueAddresses(breakpoint_sites_) /\ UniqueAddresses(watchpoints_))
  /\ [][\A a \in BpAddrs :
          (ContainsAddress(breakpoint_sites_, a) /\ CreateSiteAt(a)) =>
            /\ err' = "Breakpoint site already created at this address"
            /\ breakpoint_sites_' = breakpoint_sites_]_vars
  /\ [][\A a \in WatchAddrs :
          (ContainsAddress(watchpoints_, a) /\ CreateWatchpointAt(a)) =>
            /\ err' = "Watchpoint already created at address"
            /\ watchpoints_' = watchpoints_]_vars

\* a creation was refused at the address of a site the collection holds
C15_Witness ==
  /\ err = "Breakpoint site already created at this address"
  /\ Len(breakpoint_sites_) >= 1
  /\ Len(watchpoints_) >= 1

NonInternal(points) == {i \in 1..Len(points) : ~points[i].is_internal}

(***************************************************************************)
(* C16.  Non-internal breakpoint sites get the ids 1, 2, 3, ... in the     *)
(* order of their creation: a created non-internal site takes the id one   *)
(* greater than the last id given out, removals give no id back, refused   *)
(* creations and internal sites (id -1) take no id, so the non-internal    *)
(* sites of a collection have distinct positive ids.                       *)
(***************************************************************************)
C16_SiteIds ==
  /\ [](/\ \A i \in 1..Len(breakpoint_sites_) :
             IF breakpoint_sites_[i].is_internal
             THEN breakpoint_sites_[i].id = -1
             ELSE /\ breakpoint_sites_[i].id >= 1
                  /\ breakpoint_sites_[i].id <= site_next_id
        /\ \A i, j \in NonInternal(breakpoint_sites_) :
             breakpoint_sites_[i].id = breakpoint_sites_[j].id => i = j)
  /\ [][IF Len(breakpoint_sites_') > Len(breakpoint_sites_)
        THEN LET new == breakpoint_sites_'[Len(breakpoint_sites_')] IN
             IF new.is_internal
             THEN new.id = -1 /\ site_next_id' = site_next_id
             ELSE new.id = site_next_id + 1 /\ site_next_id' = new.id
        ELSE site_next_id' = site_next_id]_vars

\* the second id was given out after the site with the first id was removed,
\* with an internal site in the collection
C16_Witness ==
  /\ site_next_id = 2
  /\ \E i \in 1..Len(breakpoint_sites_) : breakpoint_sites_[i].id = 2
  /\ \A i \in 1..Len(breakpoint_sites_) : breakpoint_sites_[i].id # 1
  /\ \E i \in 1..Len(breakpoint_sites_) : breakpoint_sites_[i].is_internal

\* what holds after the stoppoint at position i of points was removed,
\* points_after being the collection after the removal
Removed(points, points_after, i, software) ==
  LET p == points[i] IN
  /\ points_after = Erase(points, i)
  /\ Len(points_after) = Len(points) - 1
  /\ ~ContainsAddress(points_after, p.address)
  /\ software => inferior'.mem[p.address] = InitialMem[p.address]
  /\ (p.is_enabled /\ ~software) =>
       /\ SlotFree(registers_'.dr7, p.hardware_register_index)
       /\ SlotFree(inferior'.uregs.dr7, p.hardware_register_index)

RemoveSiteCall(a) ==
  \/ RemoveSiteByAddress(a)
  \/ RemoveSiteById(breakpoint_sites_[FindByAddress(breakpoint_sites_, a)].id)

RemoveWatchpointCall(a) ==
  \/ RemoveWatchpointByAddress(a)
  \/ RemoveWatchpointById(watchpoints_[FindByAddress(watchpoints_, a)].id)

(***************************************************************************)
(* C17.  RemoveById and RemoveByAddress of a stoppoint the collection      *)
(* holds disable it and then erase it: when the call has returned, the     *)
(* inferior holds the original byte at the address of a removed software   *)
(* site, the debug register slot of a removed hardware site or watchpoint  *)
(* is free, the collection is one element shorter and holds nothing at the *)
(* address, so that a stoppoint can be created there again.                *)
(***************************************************************************)
C17_RemoveDisablesFirst ==
  /\ [][\A a \in BpAddrs :
          (last_op' \in {RemoveOp, RemoveByIdOp} /\ err' = NoErr
             /\ ContainsAddress(breakpoint_sites_, a)
             /\ RemoveSiteCall(a)) =>
            LET i == FindByAddress(breakpoint_sites_, a) IN
            Removed(breakpoint_sites_, breakpoint_sites_', i,
                    ~breakpoint_sites_[i].is_hardware)]_vars
  /\ [][\A a \in WatchAddrs :
          (last_op' \in {RemoveOp, RemoveByIdOp} /\ err' = NoErr
             /\ ContainsAddress(watchpoints_, a)
             /\ RemoveWatchpointCall(a)) =>
            Removed(watchpoints_, watchpoints_',
                    FindByAddress(watchpoints_, a), FALSE)]_vars

\* an enabled software site was removed: the removal wrote the original
\* byte back, and the address holds no site
C17_Witness ==
  /\ last_op = RemoveOp
  /\ err = NoErr
  /\ \E k \in 1..Len(log) :
       /\ log[k].req = "POKEDATA"
       /\ log[k].val = OrigByte
       /\ ~ContainsAddress(breakpoint_sites_, log[k].address)
       /\ inferior.mem[log[k].address] = OrigByte

(***************************************************************************)
(* SpecPool: more hardware breakpoint sites and watchpoints than there are *)
(* debug registers are created and enabled, with valid and invalid sizes,  *)
(* before and after the inferior is resumed.  The site at the last code    *)
(* address is internal.                                                    *)
(***************************************************************************)
PoolCreates == {<<DataBase, 1>>, <<DataBase, 3>>, <<DataBase + 4, 1>>}

InitPool == InitProcess(TRUE)

NextPool ==
  \/ \E a \in CodeAddrs : CreateBreakpointSite(a, TRUE, a = MaxAddr)
  \/ \E az \in PoolCreates : CreateWatchpoint(az[1], "write", az[2])
  \/ \E a \in CodeAddrs : EnableSiteAt(a)
  \/ \E id \in Ids : EnableWatchpoint(id)
  \/ DoResume(Nop)

SpecPool == InitPool /\ [][NextPool]_vars

\* an Enable call on a breakpoint site or a watchpoint
EnableCall ==
  \/ \E a \in CodeAddrs : EnableSiteAt(a)
  \/ \E id \in Ids : EnableWatchpoint(id)

DebugRegs(regs) == <<regs.dr0, regs.dr1, regs.dr2, regs.dr3, regs.dr7>>

(***************************************************************************)
(* C12.  An Enable call that fails leaves the debug registers of the       *)
(* snapshot, the memory of the inferior and the enabled flag and register  *)
(* index of every stoppoint as they were.                                  *)
(***************************************************************************)
C12_FailedEnableNoEffect ==
  [][(err' # NoErr /\ EnableCall) =>
       /\ DebugRegs(registers_') = DebugRegs(registers_)
       /\ inferior'.mem = inferior.mem
       /\ breakpoint_sites_' = breakpoint_sites_
       /\ watchpoints_' = watchpoints_]_vars

AllInUse(regs) ==
  \A i \in 0..(NumDebugRegs - 1) : SlotEnabled(regs.dr7, i)

\* an Enable call on a hardware stoppoint that is not enabled
HardwareEnableCall ==
  \/ \E a \in CodeAddrs :
       /\ EnableSiteAt(a)
       /\ LET site == breakpoint_sites_[FindByAddress(breakpoint_sites_, a)]
          IN site.is_hardware /\ ~site.is_enabled
  \/ \E id \in Ids :
       /\ EnableWatchpoint(id)
       /\ ~watchpoints_[FindById(watchpoints_, id)].is_enabled

(***************************************************************************)
(* C13.  Enabling a hardware breakpoint site or a watchpoint while the     *)
(* four debug registers are in use fails with the no-free-register error   *)
(* and leaves DR0..DR3, DR7 and the stoppoints as they were.               *)
(***************************************************************************)
C13_NoFreeRegister ==
  [][(AllInUse(registers_) /\ HardwareEnableCall) =>
       /\ err' = "No remaining hardware debug registers"
       /\ DebugRegs(registers_') = DebugRegs(registers_)
       /\ DebugRegs(inferior'.uregs) = DebugRegs(inferior.uregs)
       /\ breakpoint_sites_' = breakpoint_sites_
       /\ watchpoints_' = watchpoints_]_vars

\* the fifth stoppoint was refused with sites and watchpoints in the pool
C13_Witness ==
  /\ err = "No remaining hardware debug registers"
  /\ AllInUse(registers_)
  /\ \E k \in 1..Len(breakpoint_sites_) :
       breakpoint_sites_[k].is_hardware /\ breakpoint_sites_[k].is_enabled
  /\ \E k \in 1..Len(watchpoints_) : watchpoints_[k].is_enabled

(***************************************************************************)
(* Process::Launch (process.cpp) and Pipe (pipe.cpp).  The parent and the  *)
(* forked child run concurrently; every kernel call of the child and the   *)
(* fork itself can fail.  A message in the pipe is the prefix of the text  *)
(* ExitWithPerror writes.                                                  *)
(***************************************************************************)
LaunchStart(debug, stdout_replacement) ==
  [parent |-> "fork", child |-> "none", pid |-> 0, debug |-> debug,
   stdout_replacement |-> stdout_replacement, pipe |-> <<>>,
   parent_write_fd |-> TRUE, child_write_fd |-> FALSE, data |-> <<>>,
   error |-> NoErr, failed_call |-> "none"]

\* one step of Launch: the Process object exists from the return on; the
\* child of a launch without debug runs untraced, and there is no child
\* when fork has failed
LaunchStep(l) ==
  /\ launch' = l
  /\ IF l.parent = "returned"
     THEN /\ state_' = "Stopped"
          /\ is_attached_' = l.debug
          /\ terminate_on_end_' = TRUE
     ELSE UNCHANGED <<state_, is_attached_, terminate_on_end_>>
  /\ inferior' =
       IF l.parent # "returned" \/ l.debug THEN inferior
       ELSE IF l.pid = -1
       THEN [inferior EXCEPT !.task = "gone", !.traced = FALSE]
       ELSE [inferior EXCEPT !.task = "run", !.traced = FALSE]
  /\ err' = l.error
  /\ last_op' = "Launch"
  /\ UNCHANGED <<expecting_syscall_exit_, syscall_catch_policy_, registers_,
                 breakpoint_sites_, watchpoints_, site_next_id, watch_next_id,
                 in_wait, ret, log, read_ret, dropped, elf, conv>>

\* fork(); its failure is not handled
Fork(ok) ==
  /\ launch.parent = "fork"
  /\ LaunchStep(IF ok
                THEN [launch EXCEPT !.parent = "close_write", !.pid = 1,
                                    !.child = "setpgid",
                                    !.child_write_fd = TRUE]
                ELSE [launch EXCEPT !.parent = "close_write", !.pid = -1,
                                    !.failed_call = "fork"])

ExitWithPerror(l, prefix) ==
  [l EXCEPT !.pipe = Append(@, prefix), !.child = "exited",
            !.child_write_fd = FALSE]

\* the statements of the child, one kernel call at a time
ChildStep(ok) ==
  LET l == launch
      after_close == IF l.stdout_replacement THEN "dup2"
                     ELSE IF l.debug THEN "traceme" ELSE "exec"
  IN
  /\ l.child \in {"setpgid", "close_read", "dup2", "traceme", "exec"}
  /\ l.child = "close_read" => ok
  /\ LaunchStep(
       CASE l.child = "setpgid" ->
              IF ok THEN [l EXCEPT !.child = "close_read"]
              ELSE ExitWithPerror(l, "Could not set pgid")
         [] l.child = "close_read" -> [l EXCEPT !.child = after_close]
         [] l.child = "dup2" ->
              IF ok THEN [l EXCEPT !.child =
                                     IF l.debug THEN "traceme" ELSE "exec"]
              ELSE ExitWithPerror(l, "stdout replacement failed")
         [] l.child = "traceme" ->
              IF ok THEN [l EXCEPT !.child = "exec"]
              ELSE ExitWithPerror(l, "Tracing failed")
         [] l.child = "exec" ->
              IF ok THEN [l EXCEPT !.child = "execed",
                                   !.child_write_fd = FALSE]
              ELSE ExitWithPerror(l, "exec failed"))

\* channel.CloseWriteFd() in the parent
ParentCloseWriteFd ==
  /\ launch.parent = "close_write"
  /\ LaunchStep([launch EXCEPT !.parent = "read", !.parent_write_fd = FALSE])

\* channel.Read(): blocks until the pipe holds data or no write end is open
ParentRead ==
  /\ launch.parent = "read"
  /\ \/ launch.pipe # <<>>
     \/ ~launch.parent_write_fd /\ ~launch.child_write_fd
  /\ LaunchStep([launch EXCEPT
                   !.data = launch.pipe,
                   !.pipe = <<>>,
                   !.parent = IF launch.pipe # <<>> THEN "reap"
                              ELSE IF launch.debug THEN "wait"
                              ELSE "returned"])

\* waitpid(pid, nullptr, 0) and Error::Send of the text read
ParentReap ==
  /\ launch.parent = "reap"
  /\ launch.child = "exited"
  /\ LaunchStep([launch EXCEPT !.child = "reaped", !.parent = "failed",
                               !.error = launch.data[1]])

\* process->WaitOnSignal() and SetPtraceOptions of a debug launch.  With
\* pid -1 waitpid waits for any child: it fails when the debugger has no
\* other child, and collects the stop or the end of another child
\* otherwise; the ptrace requests on pid -1 that follow fail.
ParentWait(others) ==
  /\ launch.parent = "wait"
  /\ IF launch.pid = -1
     THEN LaunchStep([launch EXCEPT
                       !.parent = "failed",
                       !.error =
                          CASE others = "none" -> "waitpid failed"
                            [] others = "stopped" ->
                                 "Could not read GPR registers"
                            [] others = "ended" ->
                                 "Failed to set TRACESYSGOOD option"])
     ELSE /\ launch.child = "execed"
          /\ others = "none"
          /\ LaunchStep([launch EXCEPT !.parent = "returned"])

\* waitpid in process->WaitOnSignal(), or PTRACE_SETOPTIONS in
\* SetPtraceOptions, fails for the child of a debug launch
ParentWaitFails(call) ==
  /\ launch.parent = "wait"
  /\ launch.pid # -1
  /\ launch.child = "execed"
  /\ LaunchStep([launch EXCEPT
                   !.parent = "failed",
                   !.failed_call = call,
                   !.error = IF call = "waitpid" THEN "waitpid failed"
                             ELSE "Failed to set TRACESYSGOOD option"])

InitLaunch ==
  /\ launch \in {LaunchStart(d, r) : d \in BOOLEAN, r \in BOOLEAN}
  /\ elf = NoElf
  /\ conv = NoConv
  /\ state_ = "Stopped"
  /\ is_attached_ = FALSE
  /\ terminate_on_end_ = FALSE
  /\ expecting_syscall_exit_ = FALSE
  /\ syscall_catch_policy_ = CatchNone
  /\ registers_ = InitialRegs
  /\ breakpoint_sites_ = <<>>
  /\ watchpoints_ = <<>>
  /\ site_next_id = 0
  /\ watch_next_id = 0
  /\ inferior = InitialInferior
  /\ in_wait = FALSE
  /\ last_op = "none"
  /\ ret = NoReason
  /\ err = NoErr
  /\ log = <<>>
  /\ read_ret = <<>>
  /\ dropped = FALSE

NextLaunch ==
  \/ \E ok \in BOOLEAN : Fork(ok)
  \/ \E ok \in BOOLEAN : ChildStep(ok)
  \/ ParentCloseWriteFd
  \/ ParentRead
  \/ ParentReap
  \/ \E others \in {"none", "stopped", "ended"} : ParentWait(others)
  \/ \E call \in {"waitpid", "setoptions"} : ParentWaitFails(call)

SpecLaunch == InitLaunch /\ [][NextLaunch]_vars

(***************************************************************************)
(* C14.  Launch returns a Process only if the child reached a successful   *)
(* exec; when a step of the child fails, Launch fails with the text the    *)
(* child wrote and the child has been reaped; the parent is never blocked  *)
(* on the pipe after a successful exec.                                    *)
(***************************************************************************)
C14_LaunchReturnsAfterExec ==
  /\ launch.parent = "returned" => launch.child = "execed"
  /\ (launch.child \in {"exited", "reaped"} /\ launch.parent = "failed") =>
       /\ launch.child = "reaped"
       /\ launch.error \in {"Could not set pgid", "stdout replacement failed",
                            "Tracing failed", "exec failed"}
  /\ (launch.parent = "read" /\ launch.child = "execed") => ENABLED ParentRead

(***************************************************************************)
(* SpecWrite: data of several lengths is written at several addresses of a *)
(* stopped inferior, over code that holds a software breakpoint site and   *)
(* over data, in and out of the mapped memory.                             *)
(***************************************************************************)
WriteAddrs == {0, DataBase - 1, MemTop - 2}

WriteLens == {0, 1, 3, WordSize, WordSize + 1}

\* the data of a caller: n bytes counting up from v
Data(n, v) == [k \in 1..n |-> v + k]

WriteData == {Data(n, v) : n \in WriteLens, v \in {16, 32}}

InitWrite == InitProcess(TRUE)

NextWrite ==
  \/ \E a \in WriteAddrs, d \in WriteData : WriteMemory(a, d)
  \/ CreateBreakpointSite(0, FALSE, FALSE)
  \/ EnableSiteAt(0)
  \/ RemoveSiteByAddress(0)

SpecWrite == InitWrite /\ [][NextWrite]_vars

\* the first request of WriteMemory(a, d) pokes the first byte of d at a
FirstPoke(requests, a, d) ==
  IF Len(d) = 0 THEN requests = <<>>
  ELSE /\ requests # <<>>
       /\ requests[1].address = a
       /\ requests[1].val = d[1]

(***************************************************************************)
(* C18.  When WriteMemory(a, d) has returned, for data of any length n,    *)
(* the bytes of the inferior at [a, a + n) are d and every other byte is   *)
(* what it was, the bytes after a trailing partial word included, so that  *)
(* ReadMemory(a, n) returns d.                                             *)
(***************************************************************************)
C18_WriteMemoryFrame ==
  [][\A a \in WriteAddrs, d \in WriteData :
       (last_op' = "WriteMemory" /\ err' = NoErr /\ FirstPoke(log', a, d)
          /\ WriteMemory(a, d)) =>
         /\ \A p \in 0..MemTop :
              inferior'.mem[p] =
                IF p >= a /\ p < a + Len(d) THEN d[p - a + 1]
                ELSE inferior.mem[p]
         /\ ReadMemory([inferior |-> inferior'], a, Len(d)) = d]_vars

\* three bytes were written at the start of the code with one poke of a
\* word whose other bytes are the code that was there
C18_Witness ==
  /\ last_op = "WriteMemory"
  /\ err = NoErr
  /\ Len(log) = 1
  /\ log[1].address = 0
  /\ inferior.mem[0] = log[1].val
  /\ inferior.mem[2] = log[1].val + 2
  /\ inferior.mem[3] = OrigByte

(***************************************************************************)
(* SpecEnd: a Process that Launch or Attach returned is resumed and waited *)
(* for while its inferior runs, is interrupted, ends or is killed, and is  *)
(* destroyed at any moment.                                                *)
(***************************************************************************)
InitEnd == \E terminate_on_end \in BOOLEAN : InitProcess(terminate_on_end)

NextEnd ==
  \/ CreateBreakpointSite(0, FALSE, FALSE)
  \/ EnableSiteAt(0)
  \/ \E c \in ResumeInstrs(BpInstrs) : DoResume(c)
  \/ DoWaitOnSignal(Nop)
  \/ \E c \in BpInstrs : InferiorRun(c)
  \/ HandleSigint
  \/ ExternalKill
  \/ \E c \in BpInstrs : Drop(c)

SpecEnd == InitEnd /\ [][NextEnd]_vars

DropRequests(req, sig) ==
  {k \in 1..Len(log) : log[k].req = req /\ log[k].val = sig}

(***************************************************************************)
(* C19.  When the Process is dropped, the detach request is made only for  *)
(* an attached inferior and only once it is stopped; the inferior of       *)
(* Attach is never killed by the drop, and the inferior of Launch is       *)
(* always killed and reaped.                                               *)
(***************************************************************************)
C19_DropOrder ==
  dropped =>
    /\ \A k \in DropRequests("DETACH", 0) :
         is_attached_ /\ log[k].reg = "stop"
    /\ ~terminate_on_end_ => DropRequests("KILL", SIGKILL) = {}
    /\ terminate_on_end_ =>
         /\ \E k \in DropRequests("KILL", SIGKILL) :
              log[k].reg \in {"run", "stop"}
         /\ inferior.task = "gone"

(***************************************************************************)
(* SpecState: a program is launched, with and without tracing, or          *)
(* attached to, and every kind of operation is called on the Process that  *)
(* Launch or Attach returned while its inferior runs and ends.             *)
(***************************************************************************)
StateInstrs == {Nop, Instr("syscall", 1, 0, TRUE)}

NextState ==
  \/ \E ok \in BOOLEAN : Fork(ok)
  \/ \E ok \in BOOLEAN : ChildStep(ok)
  \/ ParentCloseWriteFd
  \/ ParentRead
  \/ ParentReap
  \/ \E others \in {"none", "stopped", "ended"} : ParentWait(others)
  \/ CreateBreakpointSite(0, FALSE, FALSE)
  \/ EnableSiteAt(0)
  \/ RemoveSiteByAddress(0)
  \/ DoReadMemoryWithoutTraps(0, 1)
  \/ WriteMemory(DataBase, Data(1, 16))
  \/ DoWriteRegister("rip", 0)
  \/ SetSyscallCatchPolicy([mode |-> "All", to_catch |-> {}])
  \/ \E c \in ResumeInstrs(StateInstrs) : DoResume(c)
  \/ \E c \in StateInstrs : DoStepInstruction(c)
  \/ DoWaitOnSignal(Nop)
  \/ \E c \in StateInstrs : InferiorRun(c)

\* the start of Launch, or the Process that Attach has returned
InitState ==
  \/ InitLaunch /\ ~launch.stdout_replacement
  \/ InitProcess(FALSE)

SpecState == InitState /\ [][NextState]_vars

(***************************************************************************)
(* C20.  The state of a Process is Stopped when Launch or Attach returns,   *)
(* and only Resume, StepInstruction and WaitOnSignal change it: operations *)
(* on stoppoints, reads and writes of memory and registers and             *)
(* SetSyscallCatchPolicy leave it as it is, and so does a Resume that      *)
(* fails.                                                                  *)
(***************************************************************************)
C20_StateFrame ==
  /\ []((launch.parent = "returned" /\ last_op = "Launch") =>
          state_ = "Stopped")
  /\ [][state_' # state_ =>
          last_op' \in {"Resume", "StepInstruction", "WaitOnSignal"}]_vars
  /\ [][(last_op' = "Resume" /\ err' # NoErr) => state_' = state_]_vars

\* a Resume has failed on a stopped Process that holds a breakpoint site
C20_Witness ==
  /\ last_op = "Resume"
  /\ err # NoErr
  /\ state_ = "Stopped"
  /\ Len(breakpoint_sites_) = 1

(***************************************************************************)
(* SpecLive: the commands of sdb.  A command runs at the prompt; continue  *)
(* resumes the inferior and blocks in WaitOnSignal until the kernel has a  *)
(* status for it, and the SIGINT handler of sdb runs at any moment.  The   *)
(* kernel schedules the running inferior, and waitpid returns once the     *)
(* inferior has changed state: both are weakly fair.                       *)
(***************************************************************************)
AtPrompt == state_ # "Running"

LiveInstrs == {Nop, Instr("syscall", 1, 0, FALSE), Instr("syscall", 2, 0, TRUE)}

InitLive == InitProcess(TRUE)

InferiorRuns == \E c \in LiveInstrs : InferiorRun(c)

WaitReturns == \E c \in WaitInstrs(LiveInstrs) : DoWaitOnSignal(c)

NextLive ==
  \/ AtPrompt /\ CreateBreakpointSite(1, FALSE, FALSE)
  \/ AtPrompt /\ EnableSiteAt(1)
  \/ AtPrompt /\ \E info \in Policies : SetSyscallCatchPolicy(info)
  \/ AtPrompt /\ \E c \in ResumeInstrs(LiveInstrs) : DoResume(c)
  \/ WaitReturns
  \/ InferiorRuns
  \/ HandleSigint

\* the kernel holds a status of the inferior that no wait has collected
StatusReady == ~dropped /\ inferior.wait_status.kind # "none"

\* weak fairness of the return of waitpid, WF_vars(StatusReady /\ WaitReturns)
\* with the enabling condition of that action written out: the action is
\* enabled exactly when the status is ready, since the wait collects it
WaitFair == []<>(~StatusReady) \/ []<><<WaitReturns>>_vars

SpecLive ==
  InitLive /\ [][NextLive]_vars /\ WF_vars(InferiorRuns) /\ WaitFair

Interrupted ==
  /\ state_ = "Running"
  /\ inferior.task = "run"
  /\ inferior.sig_pending

(***************************************************************************)
(* C21.  When the inferior is Running, the debugger is blocked in          *)
(* WaitOnSignal and the SIGINT handler has sent the stop signal, then      *)
(* WaitOnSignal eventually returns a StopReason with state Stopped, unless *)
(* the inferior has ended in the meantime.                                 *)
(***************************************************************************)
C21_InterruptUnblocksWait ==
  Interrupted ~>
    \/ /\ last_op = "WaitOnSignal"
       /\ ~in_wait
       /\ err = NoErr
       /\ ret.reason = "Stopped"
       /\ state_ = "Stopped"
    \/ inferior.task \in {"zombie", "gone"}

\* the wait has returned the stop of the signal that the handler sent
C21_Witness ==
  /\ last_op = "WaitOnSignal"
  /\ state_ = "Stopped"
  /\ ret.reason = "Stopped"
  /\ ret.info = SIGSTOP

(***************************************************************************)
(* Lookups in the collections of breakpoint sites and of watchpoints.  The  *)
(* caller creates and removes stoppoints and asks for one by id or by      *)
(* address; the lookup returns the stoppoint or throws.                    *)
(***************************************************************************)
GetAddrs == {0, 1, DataBase, DataBase + 4}

GetSiteById(id) ==
  /\ Idle
  /\ Commit(GetById(Cur, breakpoint_sites_, id), GetByIdOp)

GetSiteByAddress(address) ==
  /\ Idle
  /\ Commit(GetByAddress(Cur, breakpoint_sites_, address), GetByAddressOp)

GetWatchpointById(id) ==
  /\ Idle
  /\ Commit(GetById(Cur, watchpoints_, id), GetByIdOp)

GetWatchpointByAddress(address) ==
  /\ Idle
  /\ Commit(GetByAddress(Cur, watchpoints_, address), GetByAddressOp)

InitGet == InitProcess(TRUE)

NextGet ==
  \/ \E a \in {0, 1} : CreateBreakpointSite(a, FALSE, FALSE)
  \/ \E a \in {DataBase, DataBase + 4} : CreateWatchpoint(a, "write", 1)
  \/ \E id \in 1..MaxId : RemoveSiteById(id)
  \/ \E a \in {DataBase, DataBase + 4} : RemoveWatchpointByAddress(a)
  \/ \E id \in 0..MaxId : GetSiteById(id)
  \/ \E a \in GetAddrs : GetSiteByAddress(a)
  \/ \E id \in 0..MaxId : GetWatchpointById(id)
  \/ \E a \in GetAddrs : GetWatchpointByAddress(a)

SpecGet == InitGet /\ [][NextGet]_vars

\* the stoppoints of a collection with the given id, with the given address
WithId(points, id) == {i \in 1..Len(points) : points[i].id = id}

WithAddress(points, address) ==
  {i \in 1..Len(points) : points[i].address = address}

\* the lookup threw msg and returned nothing
Failed(msg) == err' = msg

\* the lookup returned one of the stoppoints numbered in found
Found(points, found) ==
  /\ err' = NoErr
  /\ found # {}
  /\ \E i \in found : ret' = points[i]

(***************************************************************************)
(* C22: GetById and GetByAddress fail with an error when the collection    *)
(* holds no stoppoint with the id or the address, and return the stoppoint *)
(* with exactly that id or address when it does; ContainsId and            *)
(* ContainsAddress are true exactly in the second case.                    *)
(***************************************************************************)
C22_Lookups ==
  [][/\ \A id \in 0..MaxId :
          /\ ContainsId(breakpoint_sites_, id)
               <=> WithId(breakpoint_sites_, id) # {}
          /\ ContainsId(watchpoints_, id) <=> WithId(watchpoints_, id) # {}
          /\ GetSiteById(id) =>
               IF ContainsId(breakpoint_sites_, id)
               THEN Found(breakpoint_sites_, WithId(breakpoint_sites_, id))
               ELSE Failed("Invalid StopPoint id")
          /\ GetWatchpointById(id) =>
               IF ContainsId(watchpoints_, id)
               THEN Found(watchpoints_, WithId(watchpoints_, id))
               ELSE Failed("Invalid StopPoint id")
     /\ \A a \in GetAddrs :
          /\ ContainsAddress(breakpoint_sites_, a)
               <=> WithAddress(breakpoint_sites_, a) # {}
          /\ ContainsAddress(watchpoints_, a)
               <=> WithAddress(watchpoints_, a) # {}
          /\ GetSiteByAddress(a) =>
               IF ContainsAddress(breakpoint_sites_, a)
               THEN Found(breakpoint_sites_,
                          WithAddress(breakpoint_sites_, a))
               ELSE Failed("StopPoint with given address not found")
          /\ GetWatchpointByAddress(a) =>
               IF ContainsAddress(watchpoints_, a)
               THEN Found(watchpoints_, WithAddress(watchpoints_, a))
               ELSE Failed("StopPoint with given address not found")]_vars

\* a lookup by address returned the second of two breakpoint sites
C22_Witness ==
  /\ last_op = GetByAddressOp
  /\ err = NoErr
  /\ Len(breakpoint_sites_) = 2
  /\ ret = breakpoint_sites_[2]

(***************************************************************************)
(* File addresses and virtual addresses of an Elf.  Addresses are unsigned *)
(* integers of AddrBits bits and their arithmetic wraps around.  A virtual *)
(* address is its number; a file address is the Elf it belongs to and its  *)
(* number, and the default FileAddress belongs to no Elf.                  *)
(***************************************************************************)
AddrBits == 3

AddrMod == Pow2(AddrBits)

Wrap(n) == n % AddrMod

FileAddress(obj, addr) == [elf_ |-> obj, addr_ |-> addr]

NullFileAddress == FileAddress("null", 0)

NullVirtualAddress == 0

\* the conversion of the default FileAddress fails its assertion
Aborted == -1

\* GetSectionContainingAddress(FileAddress): the number of the first section
\* holding the address, 0 for nullptr
SectionContainingFileAddress(e, file_addr) ==
  IF file_addr.elf_ # "obj" THEN 0
  ELSE LET In(i) ==
             /\ e.section_headers_[i].sh_addr <= file_addr.addr_
             /\ Wrap(e.section_headers_[i].sh_addr
                       + e.section_headers_[i].sh_size) > file_addr.addr_
       IN IF \E i \in 1..Len(e.section_headers_) : In(i)
          THEN CHOOSE i \in 1..Len(e.section_headers_) :
                 In(i) /\ \A j \in 1..(i - 1) : ~In(j)
          ELSE 0

\* GetSectionContainingAddress(VirtualAddress)
SectionContainingVirtualAddress(e, virtual_addr) ==
  LET In(i) ==
        /\ Wrap(e.load_bias_ + e.section_headers_[i].sh_addr) <= virtual_addr
        /\ Wrap(Wrap(e.load_bias_ + e.section_headers_[i].sh_addr)
                  + e.section_headers_[i].sh_size) > virtual_addr
  IN IF \E i \in 1..Len(e.section_headers_) : In(i)
     THEN CHOOSE i \in 1..Len(e.section_headers_) :
            In(i) /\ \A j \in 1..(i - 1) : ~In(j)
     ELSE 0

\* FileAddress::ToVirtualAddress
ToVirtualAddress(e, file_addr) ==
  IF file_addr.elf_ = "null" THEN Aborted
  ELSE IF SectionContainingFileAddress(e, file_addr) = 0
  THEN NullVirtualAddress
  ELSE Wrap(file_addr.addr_ + e.load_bias_)

\* VirtualAddress::ToFileAddress
ToFileAddress(e, address) ==
  IF SectionContainingVirtualAddress(e, address) = 0
  THEN NullFileAddress
  ELSE FileAddress("obj", Wrap(address - e.load_bias_ + AddrMod))

(***************************************************************************)
(* An Elf with up to two sections that end within the address space, its   *)
(* load bias set by NotifyLoaded, and conversions of addresses: a          *)
(* conversion of an address, and the conversion back of its result.        *)
(***************************************************************************)
SectionSizes == {0, 2}

Sections ==
  {sh \in [sh_addr : 0..(AddrMod - 1), sh_size : SectionSizes] :
     sh.sh_addr + sh.sh_size < AddrMod}

SectionTables == {<<>>} \cup {<<a>> : a \in Sections}
                   \cup {<<a, b>> : a \in Sections, b \in Sections}

NotifyLoaded(address) ==
  /\ elf' = [elf EXCEPT !.load_bias_ = address]
  /\ conv' = NoConv

Converted(op, arg, res, back, orig) ==
  /\ conv' = [op |-> op, arg |-> arg, res |-> res, back |-> back,
              orig |-> orig]
  /\ UNCHANGED elf

FileToVirtual(addr) ==
  LET a == FileAddress("obj", addr)
  IN Converted("ToVirtualAddress", a, ToVirtualAddress(elf, a), FALSE, a)

VirtualToFile(address) ==
  Converted("ToFileAddress", address, ToFileAddress(elf, address), FALSE,
            address)

ConvertBack ==
  /\ conv.op # "none"
  /\ ~conv.back
  /\ IF conv.op = "ToVirtualAddress"
     THEN Converted("ToFileAddress", conv.res, ToFileAddress(elf, conv.res),
                    TRUE, conv.orig)
     ELSE Converted("ToVirtualAddress", conv.res,
                    ToVirtualAddress(elf, conv.res), TRUE, conv.orig)

ElfUnchanged ==
  UNCHANGED <<state_, is_attached_, terminate_on_end_,
              expecting_syscall_exit_, syscall_catch_policy_, registers_,
              breakpoint_sites_, watchpoints_, site_next_id, watch_next_id,
              inferior, in_wait, last_op, ret, err, log, read_ret, dropped,
              launch>>

InitElf ==
  /\ InitTracee(TRUE)
  /\ elf \in {[section_headers_ |-> t, load_bias_ |-> 0] : t \in SectionTables}
  /\ conv = NoConv

NextElf ==
  \/ ElfUnchanged /\ \E address \in 0..(AddrMod - 1) : NotifyLoaded(address)
  \/ ElfUnchanged /\ \E addr \in 0..(AddrMod - 1) : FileToVirtual(addr)
  \/ ElfUnchanged /\ \E address \in 0..(AddrMod - 1) : VirtualToFile(address)
  \/ ElfUnchanged /\ ConvertBack

SpecElf == InitElf /\ [][NextElf]_vars

\* the file address lies in a section of the Elf
InSection(addr) ==
  \E i \in 1..Len(elf.section_headers_) :
    /\ elf.section_headers_[i].sh_addr <= addr
    /\ addr < elf.section_headers_[i].sh_addr + elf.section_headers_[i].sh_size

\* the virtual address is that of a file address in a section of the Elf
InLoadedSection(address) ==
  \E addr \in 0..(AddrMod - 1) :
    InSection(addr) /\ Wrap(addr + elf.load_bias_) = address

(***************************************************************************)
(* C23: for an Elf with any load bias and any address inside one of its    *)
(* sections, a file address converted to a virtual address and back is the *)
(* same address, and so is a virtual address converted to a file address   *)
(* and back; an address outside every section converts to the null         *)
(* address.                                                                *)
(***************************************************************************)
C23_RoundTrip ==
  /\ conv.op = "ToFileAddress" /\ conv.back /\ InSection(conv.orig.addr_)
       => conv.res = conv.orig
  /\ conv.op = "ToVirtualAddress" /\ conv.back /\ InLoadedSection(conv.orig)
       => conv.res = conv.orig
  /\ conv.op = "ToVirtualAddress" /\ ~conv.back
         /\ ~InSection(conv.arg.addr_)
       => conv.res = NullVirtualAddress
  /\ conv.op = "ToFileAddress" /\ ~conv.back /\ ~InLoadedSection(conv.arg)
       => conv.res = NullFileAddress

(***************************************************************************)
(* Disabling or removing an enabled hardware stoppoint clears its debug    *)
(* register slot.                                                          *)
(***************************************************************************)
\* the enabled stoppoint p of a collection is disabled or gone in points
Cleared(p, points) ==
  /\ p.is_enabled
  /\ ~\E j \in 1..Len(points) : points[j].id = p.id /\ points[j].is_enabled

\* the step is a ClearHardwareStoppoint(i) that returned without error
ClearsSlot(i) ==
  /\ last_op' = StoppointOp
  /\ err' = NoErr
  /\ \/ \E k \in 1..Len(breakpoint_sites_) :
          /\ breakpoint_sites_[k].is_hardware
          /\ breakpoint_sites_[k].hardware_register_index = i
          /\ Cleared(breakpoint_sites_[k], breakpoint_sites_')
     \/ \E k \in 1..Len(watchpoints_) :
          /\ watchpoints_[k].hardware_register_index = i
          /\ Cleared(watchpoints_[k], watchpoints_')

\* the DR7 bits of slot i: its two enable bits and its mode and size fields
SlotBits(i) == {2 * i, 2 * i + 1} \cup (16 + 4 * i)..(19 + 4 * i)

\* regs after the slot i of before has been cleared and nothing else changed
SlotCleared(before, regs, i) ==
  regs = [before EXCEPT ![DrName(i)] = 0, !.dr7 = @ \ SlotBits(i)]

(***************************************************************************)
(* C24: ClearHardwareStoppoint(i) sets the debug address register i to 0   *)
(* and clears exactly the DR7 bits 2i, 2i+1 and 16+4i .. 19+4i; every      *)
(* other bit of DR7 and every other debug register are unchanged.          *)
(***************************************************************************)
C24_ClearFrame ==
  [][\A i \in 0..(NumDebugRegs - 1) :
       ClearsSlot(i) =>
         /\ SlotCleared(registers_, registers_', i)
         /\ SlotCleared(inferior.uregs, inferior'.uregs, i)]_vars

(***************************************************************************)
(* Enabling a hardware stoppoint takes a debug register slot.              *)
(***************************************************************************)
\* the stoppoints of a collection that hold slot i
Holders(points, i) ==
  {k \in 1..Len(points) :
     points[k].is_enabled /\ points[k].hardware_register_index = i}

\* no enabled hardware stoppoint holds slot i
Unheld(i) ==
  /\ Holders(watchpoints_, i) = {}
  /\ \A k \in Holders(breakpoint_sites_, i) :
       ~breakpoint_sites_[k].is_hardware

\* the DR7 bits of slot i for a mode and a size
ModeBits(i, mode) ==
  CASE mode = "execute" -> {}
    [] mode = "write" -> {16 + 4 * i}
    [] mode = "read_write" -> {16 + 4 * i, 17 + 4 * i}

SizeBits(i, size) ==
  CASE size = 1 -> {}
    [] size = 2 -> {18 + 4 * i}
    [] size = 4 -> {18 + 4 * i, 19 + 4 * i}
    [] size = 8 -> {19 + 4 * i}

\* regs after slot i of before has been set and nothing else changed
SlotSet(before, regs, i, address, mode, size) ==
  regs = [before EXCEPT
            ![DrName(i)] = address,
            !.dr7 = (@ \ SlotBits(i)) \cup {2 * i} \cup ModeBits(i, mode)
                      \cup SizeBits(i, size)]

\* the step has enabled the stoppoint p of before, in slot p1.index
SetsSlot(p, p1, i, address, mode, size) ==
  /\ ~p.is_enabled
  /\ p1.is_enabled
  /\ i = p1.hardware_register_index
  /\ Unheld(i)
  /\ \A j \in 0..(i - 1) : ~Unheld(j)
  /\ SlotSet(registers_, registers_', i, address, mode, size)
  /\ SlotSet(inferior.uregs, inferior'.uregs, i, address, mode, size)

(***************************************************************************)
(* C25: SetHardwareStoppoint picks the smallest free index i, writes the   *)
(* address to the debug address register i, sets the enable bit 2i and the *)
(* mode field (00 execute, 01 write, 11 read/write) and the size field     *)
(* (00 for 1, 01 for 2, 11 for 4, 10 for 8) of slot i in DR7, and leaves   *)
(* the other slots unchanged; a slot that was freed is used again.         *)
(***************************************************************************)
C25_SetSlot ==
  [][last_op' = StoppointOp /\ err' = NoErr =>
       /\ \A k \in 1..Len(breakpoint_sites_) :
            LET b == breakpoint_sites_[k] IN
            /\ Len(breakpoint_sites_') = Len(breakpoint_sites_)
            /\ b.is_hardware
            /\ ~b.is_enabled
            /\ breakpoint_sites_'[k].is_enabled
            => SetsSlot(b, breakpoint_sites_'[k],
                        breakpoint_sites_'[k].hardware_register_index,
                        b.address, "execute", 1)
       /\ \A k \in 1..Len(watchpoints_) :
            LET w == watchpoints_[k] IN
            /\ Len(watchpoints_') = Len(watchpoints_)
            /\ ~w.is_enabled
            /\ watchpoints_'[k].is_enabled
            => SetsSlot(w, watchpoints_'[k],
                        watchpoints_'[k].hardware_register_index,
                        w.address, w.mode, w.size)]_vars

\* slot 0 is used again: the watchpoint that held it is disabled and a site
\* holds it, while another site holds slot 1
C25_Witness ==
  /\ last_op = StoppointOp
  /\ Holders(breakpoint_sites_, 1) # {}
  /\ \E j \in 1..Len(watchpoints_) :
       /\ ~watchpoints_[j].is_enabled
       /\ watchpoints_[j].hardware_register_index = 0
  /\ \E k \in Holders(breakpoint_sites_, 0) :
       /\ breakpoint_sites_[k].is_hardware
       /\ inferior.uregs.dr0 = breakpoint_sites_[k].address
       /\ 0 \in inferior.uregs.dr7

(***************************************************************************)
(* C26: after a stop at a hardware stoppoint, GetCurrentHardwareStoppoint  *)
(* identifies the enabled stoppoint of the slot at the lowest set bit of   *)
(* DR6: it returns the id of the breakpoint site when a hardware site      *)
(* holds the slot and the id of the watchpoint when a watchpoint holds it, *)
(* also when a site and a watchpoint are at the same address.              *)
(***************************************************************************)
C26_CurrentStoppoint ==
  (/\ Returned("WaitOnSignal")
   /\ ret.trap_reason = "HardwareBreakpoint"
   /\ registers_.dr6 # {})
  => /\ \A k \in Holders(watchpoints_, Ctz(registers_.dr6)) :
          GetCurrentHardwareStoppoint(Cur)
            = [index |-> 1, id |-> watchpoints_[k].id]
     /\ \A k \in Holders(breakpoint_sites_, Ctz(registers_.dr6)) :
          breakpoint_sites_[k].is_hardware
          => GetCurrentHardwareStoppoint(Cur)
               = [index |-> 0, id |-> breakpoint_sites_[k].id]

(***************************************************************************)
(* The stops the controller waits for.                                     *)
(***************************************************************************)
\* the handler of the step has waited for the inferior
Waited(requests) ==
  \E k \in 1..Len(requests) : requests[k].req = "WAITPID"

\* Resume has stepped over a site, collected the stop of the single step,
\* which is never a syscall stop, and resumed the inferior
SteppedOver ==
  /\ last_op' = "Resume"
  /\ err' = NoErr
  /\ Waited(log')

\* WaitOnSignal, called by the caller or by StepInstruction, has returned a
\* stop that is not a syscall stop
StoppedElsewhere ==
  /\ last_op' \in {"WaitOnSignal", "StepInstruction"}
  /\ ~in_wait'
  /\ err' = NoErr
  /\ ret'.reason = "Stopped"
  /\ ret'.trap_reason # "Syscall"

(***************************************************************************)
(* C27: whenever the inferior reports a stop that is not a syscall stop,   *)
(* the controller clears expecting_syscall_exit_, so that the next syscall *)
(* stop is taken for an entry; this holds for every stop the controller    *)
(* waits for, in WaitOnSignal and in the wait of the step over a site in   *)
(* Resume.                                                                 *)
(***************************************************************************)
C27_FlagClearedOnOtherStops ==
  [][SteppedOver \/ StoppedElsewhere => ~expecting_syscall_exit_']_vars

\* the wait of the step over a site in Resume has reported the end of the
\* inferior
StepOverEnded ==
  /\ last_op' = "Resume"
  /\ Waited(log')
  /\ inferior.task \notin {"zombie", "gone"}
  /\ inferior'.task = "gone"

(***************************************************************************)
(* C28: when the wait of the step over a site in Resume reports that the   *)
(* inferior has exited or was terminated by a signal, and not a trap, the  *)
(* controller handles it: state_ becomes Exited or Terminated and no       *)
(* request to continue is made.                                            *)
(***************************************************************************)
C28_StepOverEndHandled ==
  [][StepOverEnded =>
       /\ state_' \in {"Exited", "Terminated"}
       /\ \A k \in 1..Len(log') : log'[k].req \notin {"CONT", "SYSCALL"}]_vars

(***************************************************************************)
(* SpecToggle: stoppoints are created, enabled and disabled, and nothing   *)
(* else writes to the inferior.  The software sites are at two addresses   *)
(* of one word, one of which holds an int3 of the program, and at an       *)
(* address whose word reaches beyond the mapped memory.                    *)
(***************************************************************************)
EnableOp == "Enable"

DisableOp == "Disable"

SoftwareAddrs == {0, 1, MemTop - 1}

HardwareAddr == 3

BreakpointSiteEnable(address) ==
  /\ Idle
  /\ ContainsAddress(breakpoint_sites_, address)
  /\ Commit(SiteEnable(Cur, FindByAddress(breakpoint_sites_, address)),
            EnableOp)

BreakpointSiteDisable(address) ==
  /\ Idle
  /\ ContainsAddress(breakpoint_sites_, address)
  /\ Commit(SiteDisable(Cur, FindByAddress(breakpoint_sites_, address)),
            DisableOp)

WatchpointEnable(id) ==
  /\ Idle
  /\ ContainsId(watchpoints_, id)
  /\ Commit(WatchEnable(Cur, FindById(watchpoints_, id)), EnableOp)

WatchpointDisable(id) ==
  /\ Idle
  /\ ContainsId(watchpoints_, id)
  /\ Commit(WatchDisable(Cur, FindById(watchpoints_, id)), DisableOp)

InitToggle == InitProcess(TRUE)

NextToggle ==
  \/ \E a \in SoftwareAddrs : CreateBreakpointSite(a, FALSE, a # 0)
  \/ CreateBreakpointSite(HardwareAddr, TRUE, TRUE)
  \/ CreateWatchpoint(DataBase, "write", 1)
  \/ \E a \in SoftwareAddrs \cup {HardwareAddr} : BreakpointSiteEnable(a)
  \/ \E a \in SoftwareAddrs \cup {HardwareAddr} : BreakpointSiteDisable(a)
  \/ WatchpointEnable(1)
  \/ WatchpointDisable(1)

SpecToggle == InitToggle /\ [][NextToggle]_vars

\* the software site at an address, 0 for none
SoftwareSite(address) ==
  IF /\ ContainsAddress(breakpoint_sites_, address)
     /\ ~breakpoint_sites_[FindByAddress(breakpoint_sites_,
                                         address)].is_hardware
  THEN FindByAddress(breakpoint_sites_, address)
  ELSE 0

(***************************************************************************)
(* C29: after any sequence of Enable and Disable on software breakpoint    *)
(* sites at distinct addresses, also addresses of one 8-byte word, and no  *)
(* other write to the memory of the inferior, the address of every enabled *)
(* site holds 0xCC and its saved byte is the original byte, the address of *)
(* every disabled site holds the original byte, and no byte at another     *)
(* address has changed.                                                    *)
(***************************************************************************)
C29_PatchedBytes ==
  \A a \in 0..MemTop :
    IF SoftwareSite(a) # 0 /\ breakpoint_sites_[SoftwareSite(a)].is_enabled
    THEN /\ inferior.mem[a] = Int3
         /\ breakpoint_sites_[SoftwareSite(a)].saved_data = InitialMem[a]
    ELSE inferior.mem[a] = InitialMem[a]

\* two sites of one word were enabled and the first of them was disabled
C29_Witness ==
  /\ last_op = DisableOp
  /\ err = NoErr
  /\ log # <<>>
  /\ SoftwareSite(0) # 0
  /\ ~breakpoint_sites_[SoftwareSite(0)].is_enabled
  /\ SoftwareSite(1) # 0
  /\ breakpoint_sites_[SoftwareSite(1)].is_enabled

\* the stoppoint the call is made on is enabled, is disabled
SiteIs(address, enabled) ==
  /\ ContainsAddress(breakpoint_sites_, address)
  /\ breakpoint_sites_[FindByAddress(breakpoint_sites_,
                                     address)].is_enabled = enabled

WatchpointIs(id, enabled) ==
  /\ ContainsId(watchpoints_, id)
  /\ watchpoints_[FindById(watchpoints_, id)].is_enabled = enabled

\* the call has made no request to the kernel and has changed neither the
\* inferior nor the Process
NothingDone ==
  /\ log' = <<>>
  /\ err' = NoErr
  /\ inferior'.mem = inferior.mem
  /\ inferior'.uregs = inferior.uregs
  /\ registers_' = registers_
  /\ breakpoint_sites_' = breakpoint_sites_
  /\ watchpoints_' = watchpoints_

(***************************************************************************)
(* C30: Enable on an enabled stoppoint and Disable on a disabled stoppoint *)
(* change nothing: no memory and no debug register of the inferior is      *)
(* written, the saved byte of a software site is not overwritten, and no   *)
(* debug register is allocated or cleared.                                 *)
(***************************************************************************)
C30_RepeatedToggle ==
  [][/\ \A a \in SoftwareAddrs \cup {HardwareAddr} :
          /\ SiteIs(a, TRUE) /\ BreakpointSiteEnable(a) => NothingDone
          /\ SiteIs(a, FALSE) /\ BreakpointSiteDisable(a) => NothingDone
     /\ WatchpointIs(1, TRUE) /\ WatchpointEnable(1) => NothingDone
     /\ WatchpointIs(1, FALSE) /\ WatchpointDisable(1) => NothingDone]_vars

\* Enable was called on a software site that was enabled: the call has
\* returned without a request to the kernel
C30_Witness ==
  /\ last_op = EnableOp
  /\ err = NoErr
  /\ log = <<>>
  /\ SoftwareSite(0) # 0
  /\ breakpoint_sites_[SoftwareSite(0)].is_enabled
  /\ breakpoint_sites_[SoftwareSite(0)].saved_data = InitialMem[0]

(***************************************************************************)
(* C31: when fork fails in Launch, Launch fails with an error and no       *)
(* Process is constructed; every kernel call that fails on the parent side *)
(* of Launch (fork, the first wait, the setting of the trace options)      *)
(* makes Launch fail with an error.                                        *)
(***************************************************************************)
C31_ParentFailuresAbortLaunch ==
  launch.failed_call # "none" =>
    /\ launch.parent # "returned"
    /\ launch.parent = "failed" => launch.error # NoErr

(***************************************************************************)
(* Registers::Write on the bytes of the user area.  The snapshot and the   *)
(* inferior's user area are sequences of bytes; a register is a range of   *)
(* bytes of the area given by the offset and the size of its RegisterInfo. *)
(* The area has two words here: the word of rax and the word of dr0.  The  *)
(* values written are unsigned, so Widen extends them with zero bytes.     *)
(***************************************************************************)
UserAreaSize == 2 * WordSize

Byte128Size == 16

\* the table of registers (libsdb/detail/registers.inc): rax, its
\* sub-registers, of which ah starts at the second byte of rax, and dr0
RegisterInfos ==
  { [name |-> "rax", size |-> 8, offset |-> 0, type |-> "GPR"],
    [name |-> "eax", size |-> 4, offset |-> 0, type |-> "SUB_GPR"],
    [name |-> "ax", size |-> 2, offset |-> 0, type |-> "SUB_GPR"],
    [name |-> "ah", size |-> 1, offset |-> 1, type |-> "SUB_GPR"],
    [name |-> "al", size |-> 1, offset |-> 0, type |-> "SUB_GPR"],
    [name |-> "dr0", size |-> 8, offset |-> WordSize, type |-> "DR"] }

\* ToByte128 of an unsigned value: its bytes, then zero bytes
Widen(info, v) == [i \in 1..Byte128Size |-> IF i <= Len(v) THEN v[i] ELSE 0]

\* std::copy of the bytes of from to bytes + offset
CopyBytes(bytes, from, offset) ==
  [i \in 1..Len(bytes) |->
     IF offset < i /\ i <= offset + Len(from) THEN from[i - offset]
     ELSE bytes[i]]

\* PTRACE_POKEUSER: the kernel refuses an offset that is not a multiple of
\* the word size, or one beyond the user area, with EIO
PokeUser(s, offset, data) ==
  IF ~Traced(s) \/ offset % WordSize # 0 \/ offset >= UserAreaSize
  THEN Throw(s, "Could not write to user area")
  ELSE [s EXCEPT !.inferior.uregs = CopyBytes(@, data, offset)]

\* Process::WriteUserArea(offset, data)
WriteUserAreaAt(s, offset, data) ==
  IF ~Ok(s) THEN s ELSE PokeUser(s, offset, data)

\* Registers::Write(info, value) of a GPR, a sub-GPR or a debug register
RegistersWrite(s, info, value) ==
  LET bytes == CopyBytes(s.registers_,
                         SubSeq(Widen(info, value), 1, info.size),
                         info.offset)
      aligned_offset == info.offset - (info.offset % WordSize)
  IN WriteUserAreaAt([s EXCEPT !.registers_ = bytes], info.offset,
                     SubSeq(bytes, aligned_offset + 1,
                            aligned_offset + WordSize))

\* the values written: a byte, and a value of the size of the register
WriteValues(info) == {<<1>>, <<2>>, [i \in 1..info.size |-> 3]}

ZeroBytes == [i \in 1..UserAreaSize |-> 0]

RegUnchanged ==
  UNCHANGED <<state_, is_attached_, terminate_on_end_,
              expecting_syscall_exit_, syscall_catch_policy_,
              breakpoint_sites_, watchpoints_, site_next_id, watch_next_id,
              in_wait, ret, log, read_ret, dropped, launch, elf>>

\* GetRegisters().Write(info, value) by the caller
WriteRegister(info, value) ==
  /\ \E t \in {RegistersWrite(Cur, info, value)} :
       /\ registers_' = t.registers_
       /\ inferior' = t.inferior
       /\ err' = t.err
  /\ last_op' = "Write"
  /\ conv' = [op |-> "Write", info |-> info, value |-> value]
  /\ RegUnchanged

\* the inferior runs and stops again: its registers change, and the wait
\* reads them into the snapshot (Process::ReadAllRegisters)
RegistersRefreshed(info, value) ==
  /\ \E bytes \in {CopyBytes(inferior.uregs,
                             SubSeq(Widen(info, value), 1, info.size),
                             info.offset)} :
       /\ inferior' = [inferior EXCEPT !.uregs = bytes]
       /\ registers_' = bytes
  /\ err' = NoErr
  /\ last_op' = "WaitOnSignal"
  /\ conv' = NoConv
  /\ RegUnchanged

InitReg ==
  /\ launch = LaunchDone
  /\ state_ = "Stopped"
  /\ is_attached_ = TRUE
  /\ terminate_on_end_ = TRUE
  /\ expecting_syscall_exit_ = FALSE
  /\ syscall_catch_policy_ = CatchNone
  /\ registers_ = ZeroBytes
  /\ breakpoint_sites_ = <<>>
  /\ watchpoints_ = <<>>
  /\ site_next_id = 0
  /\ watch_next_id = 0
  /\ inferior = [InitialInferior EXCEPT !.uregs = ZeroBytes]
  /\ in_wait = FALSE
  /\ last_op = "Launch"
  /\ ret = NoReason
  /\ err = NoErr
  /\ log = <<>>
  /\ read_ret = <<>>
  /\ dropped = FALSE
  /\ elf = NoElf
  /\ conv = NoConv

NextReg ==
  \/ \E info \in RegisterInfos : \E value \in WriteValues(info) :
       WriteRegister(info, value)
  \/ \E info \in RegisterInfos : RegistersRefreshed(info, <<1>>)

SpecReg == InitReg /\ [][NextReg]_vars

\* the word of the user area that holds the register
WordOf(bytes, info) ==
  SubSeq(bytes, info.offset - (info.offset % WordSize) + 1,
         info.offset - (info.offset % WordSize) + WordSize)

(***************************************************************************)
(* C32: a write through Registers::Write of a GPR, a sub-GPR or a debug    *)
(* register updates the snapshot and pokes the word of the user area that  *)
(* holds the register at its aligned offset, so that after the write the   *)
(* inferior's register equals the snapshot, for every sub-register, those  *)
(* whose offset is not a multiple of 8 included.                           *)
(***************************************************************************)
C32_WriteReachesInferior ==
  conv.op = "Write" =>
    /\ err = NoErr
    /\ WordOf(inferior.uregs, conv.info) = WordOf(registers_, conv.info)

\* a register of the table was written, the poke of its word included
C32_Witness ==
  /\ conv.op = "Write"
  /\ conv.info.name = "ah"
  /\ err # NoErr
  /\ registers_[2] # inferior.uregs[2]

(***************************************************************************)
(* Process::ReadMemory, one step for each turn of its splitting loop.      *)
(* conv holds the call: its arguments, the local variables address and     *)
(* amount, the descriptors pushed so far and the position in the function. *)
(* Addresses are those of the modelled memory, and address += chunk_size   *)
(* wraps at its top as the 64-bit address does; a page has PageSize bytes. *)
(***************************************************************************)
PageSize == 4

MaxAmount == 9

MemSize == MemTop + 1

\* a chunk of a whole page, wherever the address lies in its page
UpToNextPage_FromStart(address) == PageSize

\* 0x1000 - (address.GetAddress() & 0xfff)
UpToNextPage(address) == PageSize - (address % PageSize)

Min(a, b) == IF a <= b THEN a ELSE b

ReadUnchanged ==
  UNCHANGED <<state_, is_attached_, terminate_on_end_,
              expecting_syscall_exit_, syscall_catch_policy_, registers_,
              breakpoint_sites_, watchpoints_, site_next_id, watch_next_id,
              inferior, in_wait, ret, log, dropped, launch, elf>>

\* ReadMemory(address, amount) is called: ret(amount), no descriptor yet
ReadMemoryCall(address, amount) ==
  /\ conv.op = "ReadMemory" => conv.pc = "done"
  /\ conv' = [op |-> "ReadMemory", pc |-> "loop", arg_address |-> address,
              arg_amount |-> amount, address |-> address, amount |-> amount,
              remote_descs |-> <<>>]
  /\ last_op' = "ReadMemory"
  /\ err' = NoErr
  /\ read_ret' = <<>>
  /\ ReadUnchanged

\* one turn of while (amount > 0)
SplitLoop ==
  /\ conv.op = "ReadMemory" /\ conv.pc = "loop"
  /\ conv.amount > 0
  /\ LET up_to_next_page == UpToNextPage(conv.address)
         chunk_size == Min(conv.amount, up_to_next_page)
     IN conv' = [conv EXCEPT
                   !.remote_descs = Append(@, [iov_base |-> conv.address,
                                               iov_len |-> chunk_size]),
                   !.amount = @ - chunk_size,
                   !.address = (@ + chunk_size) % MemSize]
  /\ UNCHANGED <<last_op, err, read_ret>>
  /\ ReadUnchanged

RECURSIVE ReadDescs(_, _)
\* the bytes of the inferior that the descriptors name, in their order
ReadDescs(mem, descs) ==
  IF descs = <<>> THEN <<>>
  ELSE [k \in 1..Head(descs).iov_len |-> mem[Head(descs).iov_base + k - 1]]
         \o ReadDescs(mem, Tail(descs))

\* the loop is left; process_vm_readv fills ret, or fails when the range
\* goes beyond the mapped memory
ReadV ==
  /\ conv.op = "ReadMemory" /\ conv.pc = "loop"
  /\ conv.amount = 0
  /\ conv' = [conv EXCEPT !.pc = "done"]
  /\ IF ReadOk(Cur, conv.arg_address, conv.arg_amount)
     THEN /\ read_ret' = ReadDescs(inferior.mem, conv.remote_descs)
          /\ err' = NoErr
     ELSE /\ read_ret' = <<>>
          /\ err' = "Could not read process memory"
  /\ UNCHANGED last_op
  /\ ReadUnchanged

InitRead == InitProcess(TRUE)

NextRead ==
  \/ \E address \in 0..MemTop, amount \in 0..MaxAmount :
       ReadMemoryCall(address, amount)
  \/ SplitLoop
  \/ ReadV

SpecRead == InitRead /\ [][NextRead]_vars

RECURSIVE TotalLength(_)
TotalLength(descs) ==
  IF descs = <<>> THEN 0 ELSE Head(descs).iov_len + TotalLength(Tail(descs))

\* the descriptors follow one another from the address of the call
Contiguous(descs, address) ==
  /\ descs # <<>> => descs[1].iov_base = address
  /\ \A i \in 1..(Len(descs) - 1) :
       descs[i + 1].iov_base = (descs[i].iov_base + descs[i].iov_len) % MemSize

\* a descriptor is not empty and does not cross the end of its page
InOnePage(desc) ==
  /\ desc.iov_len >= 1
  /\ (desc.iov_base % PageSize) + desc.iov_len <= PageSize

(***************************************************************************)
(* C33: for every address a and amount n, the remote descriptors that      *)
(* ReadMemory builds are contiguous, start at a, have the total length n   *)
(* and lie each within one page; every turn of the splitting loop lowers   *)
(* the amount left, so the loop ends, and it pushes no descriptor when n   *)
(* is 0.                                                                   *)
(***************************************************************************)
C33_RemoteDescriptors ==
  /\ [](conv.op = "ReadMemory" =>
          /\ Contiguous(conv.remote_descs, conv.arg_address)
          /\ TotalLength(conv.remote_descs) + conv.amount = conv.arg_amount
          /\ \A i \in 1..Len(conv.remote_descs) :
               InOnePage(conv.remote_descs[i])
          /\ conv.pc = "done" => conv.amount = 0
          /\ conv.arg_amount = 0 => conv.remote_descs = <<>>)
  /\ [][conv.op = "ReadMemory" /\ conv.pc = "loop" /\ conv'.pc = "loop"
          /\ conv'.op = "ReadMemory"
          => conv'.amount < conv.amount /\ conv'.amount >= 0]_vars

\* a read of three pages' worth that starts inside a page has returned
C33_Witness ==
  /\ conv.op = "ReadMemory" /\ conv.pc = "done"
  /\ conv.arg_address % PageSize = 3
  /\ Len(conv.remote_descs) = 3
  /\ err = NoErr
  /\ Len(read_ret) = conv.arg_amount

(***************************************************************************)
(* RangeList::Iterator over the contents of .debug_ranges.  elf holds the  *)
(* section from the offset of the list to the end of the section, as a     *)
(* sequence of pairs of words, and the low_pc of the compile unit: the     *)
(* list, its end-of-list pair (0,0), and the pairs of the lists that       *)
(* follow it in the section.  A read beyond the end of the section is      *)
(* undefined; the pairs that follow the list stand for the values such a   *)
(* read can bring, and a read beyond them for the fault.  conv holds the   *)
(* iterator and the entries it has given.                                  *)
(***************************************************************************)
base_address_flag == 0

AllOnes == AddrMod - 1

NullPos == 0

NoEntry == [low |-> 0, high |-> 0]

RECURSIVE Increment(_, _, _, _)
\* RangeList::Iterator::operator++ from the pair at pos with the base
\* address base; read is the number of pairs read so far
Increment(data, pos, base, read) ==
  IF pos > Len(data)
  THEN [pos_ |-> pos, base_address_ |-> base, current_ |-> NoEntry,
        read |-> read + 1, fault |-> TRUE]
  ELSE LET low == data[pos][1]
           high == data[pos][2]
       IN IF low = base_address_flag
          THEN Increment(data, pos + 1, high, read + 1)
          ELSE IF low = 0 /\ high = 0
          THEN [pos_ |-> NullPos, base_address_ |-> base,
                current_ |-> [low |-> low, high |-> high],
                read |-> read + 1, fault |-> FALSE]
          ELSE [pos_ |-> pos + 1, base_address_ |-> base,
                current_ |-> [low |-> Wrap(low + base),
                              high |-> Wrap(high + base)],
                read |-> read + 1, fault |-> FALSE]

\* RangeList::Entry::Contains
EntryContains(e, addr) == e.low <= addr /\ addr < e.high

RECURSIVE AnyOf(_, _, _)
\* std::any_of from the iterator it to End(): TRUE, FALSE, or the fault
AnyOf(data, it, addr) ==
  IF it.fault THEN "fault"
  ELSE IF it.pos_ = NullPos THEN "false"
  ELSE IF EntryContains(it.current_, addr) THEN "true"
  ELSE AnyOf(data, Increment(data, it.pos_, it.base_address_, it.read), addr)

\* the iterator after a step, with the entry it stands at added to those
\* given
Given(it, entries, contains) ==
  [op |-> "RangeList", it |-> it,
   entries |-> IF it.fault \/ it.pos_ = NullPos THEN entries
               ELSE Append(entries, it.current_),
   contains |-> contains]

\* RangeList::Begin: the constructor primes the first entry
RangeListBegin ==
  /\ conv = NoConv
  /\ conv' = Given(Increment(elf.debug_ranges, 1, elf.low_pc, 0), <<>>, "none")
  /\ UNCHANGED elf

\* ++it on an iterator that is not End()
RangeListNext ==
  /\ conv.op = "RangeList"
  /\ conv.contains = "none"
  /\ ~conv.it.fault
  /\ conv.it.pos_ # NullPos
  /\ conv' = Given(Increment(elf.debug_ranges, conv.it.pos_,
                             conv.it.base_address_, conv.it.read),
                   conv.entries, "none")
  /\ UNCHANGED elf

\* RangeList::Contains(address)
RangeListContains(addr) ==
  /\ conv = NoConv
  /\ conv' = [op |-> "Contains", addr |-> addr,
              contains |-> AnyOf(elf.debug_ranges,
                                 Increment(elf.debug_ranges, 1, elf.low_pc, 0),
                                 addr)]
  /\ UNCHANGED elf

RangeWords == {0, 1, AllOnes}

RangePairs == RangeWords \X RangeWords

\* the pairs of a list: all but the end-of-list pair
ListPairs == RangePairs \ {<<0, 0>>}

RangeLists == {<<>>} \cup {<<p>> : p \in ListPairs}
                \cup {<<p, q>> : p \in ListPairs, q \in ListPairs}

\* what follows the list in the section
Following == {<<>>} \cup {<<p>> : p \in RangePairs}

InitRange ==
  /\ InitTracee(TRUE)
  /\ elf \in {[debug_ranges |-> l \o <<<<0, 0>>>> \o f, low_pc |-> b] :
                l \in RangeLists, f \in Following, b \in {0, 1}}
  /\ conv = NoConv

NextRange ==
  \/ ElfUnchanged /\ RangeListBegin
  \/ ElfUnchanged /\ RangeListNext
  \/ ElfUnchanged /\ \E addr \in 0..(AddrMod - 1) : RangeListContains(addr)

SpecRange == InitRange /\ [][NextRange]_vars

RECURSIVE RegularEntries(_, _, _)
\* the entries of the list in data from the pair at pos: one for each
\* regular pair up to the first (0,0) pair, the base replaced at each pair
\* whose low is all-ones
RegularEntries(data, pos, base) ==
  IF pos > Len(data) \/ data[pos] = <<0, 0>> THEN <<>>
  ELSE IF data[pos][1] = AllOnes
  THEN RegularEntries(data, pos + 1, data[pos][2])
  ELSE <<[low |-> Wrap(base + data[pos][1]),
          high |-> Wrap(base + data[pos][2])]>>
         \o RegularEntries(data, pos + 1, base)

\* the number of pairs of the list, its end-of-list pair included
ListLength(data) ==
  CHOOSE n \in 1..Len(data) :
    data[n] = <<0, 0>> /\ \A k \in 1..(n - 1) : data[k] # <<0, 0>>

IsPrefix(s, t) == Len(s) <= Len(t) /\ SubSeq(t, 1, Len(s)) = s

(***************************************************************************)
(* C34: iterating a range list gives, in order, one entry [base + low,     *)
(* base + high) for each regular pair up to the first (0,0) pair, where    *)
(* base starts at the low_pc of the compile unit and is replaced by high   *)
(* at each pair whose low is all-ones; such pairs give no entry; the       *)
(* iteration, and RangeList::Contains, end at the first (0,0) pair and     *)
(* read no pair after it.                                                  *)
(***************************************************************************)
C34_RangeListEntries ==
  /\ conv.op = "RangeList" =>
       /\ ~conv.it.fault
       /\ conv.it.read <= ListLength(elf.debug_ranges)
       /\ IsPrefix(conv.entries,
                   RegularEntries(elf.debug_ranges, 1, elf.low_pc))
       /\ conv.it.pos_ = NullPos =>
            conv.entries = RegularEntries(elf.debug_ranges, 1, elf.low_pc)
  /\ conv.op = "Contains" =>
       conv.contains =
         IF \E i \in 1..Len(RegularEntries(elf.debug_ranges, 1, elf.low_pc)) :
              EntryContains(RegularEntries(elf.debug_ranges, 1,
                                           elf.low_pc)[i], conv.addr)
         THEN "true" ELSE "false"

(***************************************************************************)
(* Elf::symbol_addr_map_ and GetSymbolContainingAddress.  elf holds the    *)
(* symbol table of the file and the map that BuildSymbolMaps fills from    *)
(* it: a std::map from the range of a symbol to the symbol, ordered by the *)
(* start of the range alone, here the sequence of its entries in the order *)
(* of their keys.  A symbol is named by its index in the table.            *)
(***************************************************************************)
NoSymbol == 0

\* std::map::insert: the place of the key among the entries, and nothing
\* inserted when an entry with an equivalent key is there
MapInsert(map, entry) ==
  IF \E i \in 1..Len(map) : map[i].first = entry.first THEN map
  ELSE LET before == SelectSeq(map, LAMBDA e : e.first < entry.first)
           after == SelectSeq(map, LAMBDA e : e.first > entry.first)
       IN before \o <<entry>> \o after

RECURSIVE BuildSymbolMaps(_, _, _)
\* the loop of BuildSymbolMaps over symbol_table_, from the symbol at i
BuildSymbolMaps(symbol_table, i, map) ==
  IF i > Len(symbol_table) THEN map
  ELSE LET symbol == symbol_table[i] IN
       IF symbol.st_value # 0 /\ symbol.st_name # 0 /\ symbol.st_type # "TLS"
       THEN BuildSymbolMaps(symbol_table, i + 1,
              MapInsert(map, [first |-> symbol.st_value,
                              second |-> Wrap(symbol.st_value
                                              + symbol.st_size),
                              value |-> i]))
       ELSE BuildSymbolMaps(symbol_table, i + 1, map)

\* std::map::lower_bound: the first entry whose key is not less than the
\* address, Len(map) + 1 for end()
LowerBound(map, addr) ==
  IF \E i \in 1..Len(map) : map[i].first >= addr
  THEN CHOOSE i \in 1..Len(map) :
         map[i].first >= addr /\ \A k \in 1..(i - 1) : map[k].first < addr
  ELSE Len(map) + 1

\* Elf::GetSymbolContainingAddress(FileAddress) for an address of this file
GetSymbolContainingAddress(e, file_addr) ==
  IF e.symbol_addr_map_ = <<>> THEN NoSymbol
  ELSE LET map == e.symbol_addr_map_
           it == LowerBound(map, file_addr)
       IN IF it # Len(map) + 1 /\ map[it].first = file_addr
          THEN map[it].value
          ELSE IF it = 1 THEN NoSymbol
          ELSE IF map[it - 1].first < file_addr
                    /\ map[it - 1].second > file_addr
          THEN map[it - 1].value
          ELSE NoSymbol

SymbolStarts == 0..3

SymbolSizes == {0, 1, 3}

Symbols ==
  [st_value : SymbolStarts, st_size : SymbolSizes, st_name : {0, 1},
   st_type : {"FUNC", "TLS"}]

SymbolTables == {<<>>} \cup {<<a>> : a \in Symbols}
                  \cup {<<a, b>> : a \in Symbols, b \in Symbols}

\* the Elf after its constructor: the table parsed, the maps built
InitSym ==
  /\ InitTracee(TRUE)
  /\ elf \in {[symbol_table_ |-> t,
               symbol_addr_map_ |-> BuildSymbolMaps(t, 1, <<>>)] :
                t \in SymbolTables}
  /\ conv = NoConv

SymbolContaining(file_addr) ==
  /\ conv' = [op |-> "GetSymbolContainingAddress", addr |-> file_addr,
              res |-> GetSymbolContainingAddress(elf, file_addr)]
  /\ UNCHANGED elf

NextSym ==
  ElfUnchanged /\ \E file_addr \in 0..(AddrMod - 1) :
                    SymbolContaining(file_addr)

SpecSym == InitSym /\ [][NextSym]_vars

\* the range [st_value, st_value + st_size) of the symbol holds the address
InSymbol(symbol, addr) ==
  symbol.st_value <= addr /\ addr < symbol.st_value + symbol.st_size

(***************************************************************************)
(* C35: for every file address a, GetSymbolContainingAddress(a) returns a  *)
(* symbol whose range [st_value, st_value + st_size) holds a whenever the  *)
(* range of at least one indexed symbol holds a, and nothing when none     *)
(* does, for every symbol table: nested or overlapping ranges, equal       *)
(* starts and symbols of size 0 included.                                  *)
(***************************************************************************)
C35_SymbolContaining ==
  conv.op = "GetSymbolContainingAddress" =>
    IF \E i \in 1..Len(elf.symbol_addr_map_) :
         InSymbol(elf.symbol_table_[elf.symbol_addr_map_[i].value], conv.addr)
    THEN /\ conv.res # NoSymbol
         /\ InSymbol(elf.symbol_table_[conv.res], conv.addr)
    ELSE conv.res = NoSymbol

(***************************************************************************)
(* Die::ChildrenRange over the DIEs of a compile unit.  elf holds the      *)
(* DIEs of .debug_info in their stored order, one place for each: a DIE    *)
(* without children, a DIE with children, a DIE with children and a        *)
(* DW_AT_sibling attribute, or a null entry, which ends the children of    *)
(* the nearest DIE with children that is still open.  The first DIE is     *)
(* the root of the unit.  conv holds the iterator and the DIEs it gave.    *)
(***************************************************************************)
MaxDies == 8

NullEntry == [code |-> 0, has_children |-> FALSE, sibling |-> FALSE]

DieKinds ==
  {NullEntry} \cup [code : {1}, has_children : {FALSE}, sibling : {FALSE}]
              \cup [code : {1}, has_children : {TRUE}, sibling : BOOLEAN]

\* the DIEs with children that are open after the first i places
Depth(info, i) ==
  Cardinality({k \in 1..i : info[k].has_children})
    - Cardinality({k \in 1..i : info[k].code = 0})

\* a unit: the root has children, and its null entry is the last place
WellFormed(info) ==
  /\ info[1].has_children
  /\ \A i \in 1..(Len(info) - 1) : Depth(info, i) > 0
  /\ Depth(info, Len(info)) = 0

Units ==
  UNION {{info \in [1..n -> DieKinds] : WellFormed(info)} : n \in 2..MaxDies}

\* the place of the null entry that ends the children of the DIE at pos
EndOfChildren(info, pos) ==
  CHOOSE e \in (pos + 1)..Len(info) :
    /\ Depth(info, e) = Depth(info, pos) - 1
    /\ \A k \in (pos + 1)..(e - 1) : Depth(info, k) >= Depth(info, pos)

\* what DW_AT_sibling of the DIE at pos refers to: the place after its
\* children
SiblingReference(info, pos) == EndOfChildren(info, pos) + 1

NoAbbrev == [code |-> 0, has_children |-> FALSE]

\* ParseDie at a place of the unit; beyond the unit the read is undefined
ParseDie(info, pos) ==
  IF pos > Len(info)
  THEN [position |-> pos, abbrev_ |-> NoAbbrev, sibling |-> FALSE,
        next_ |-> pos, fault |-> TRUE]
  ELSE IF info[pos].code = 0
  THEN [position |-> pos, abbrev_ |-> NoAbbrev, sibling |-> FALSE,
        next_ |-> pos + 1, fault |-> FALSE]
  ELSE [position |-> pos,
        abbrev_ |-> [code |-> info[pos].code,
                     has_children |-> info[pos].has_children],
        sibling |-> info[pos].sibling, next_ |-> pos + 1, fault |-> FALSE]

\* the iterator of end(): no DIE stored
NoDie ==
  [position |-> 0, abbrev_ |-> NoAbbrev, sibling |-> FALSE, next_ |-> 0,
   fault |-> FALSE]

\* no DIE is taken to have children
HasChildren_Never(die) == FALSE

\* die_->abbrev_->has_children
HasChildren(die) == die.abbrev_.has_children

\* !die_->abbrev_
IsNull(die) == die.abbrev_.code = 0

RECURSIVE IncrementDie(_, _)
RECURSIVE SkipToNull(_, _)
\* Die::ChildrenRange::Iterator::operator++
IncrementDie(info, die) ==
  IF IsNull(die) THEN die
  ELSE IF ~HasChildren(die) THEN ParseDie(info, die.next_)
  ELSE IF die.sibling
  THEN ParseDie(info, SiblingReference(info, die.position))
  ELSE ParseDie(info, SkipToNull(info, ParseDie(info, die.next_)).next_)

\* while (sub_children_iter->abbrev_) ++sub_children_iter
SkipToNull(info, sub_children_iter) ==
  IF IsNull(sub_children_iter) THEN sub_children_iter
  ELSE SkipToNull(info, IncrementDie(info, sub_children_iter))

\* the iterator at a DIE, which is given when it is not the null entry
AtDie(parent, die, children) ==
  [op |-> "Children", parent |-> parent, die_ |-> die,
   children |-> IF IsNull(die) THEN children
                ELSE Append(children, die.position)]

\* Children().begin() of the DIE at parent
ChildrenBegin(parent) ==
  /\ conv = NoConv
  /\ elf.debug_info[parent].code # 0
  /\ conv' = IF elf.debug_info[parent].has_children
             THEN AtDie(parent, ParseDie(elf.debug_info, parent + 1), <<>>)
             ELSE AtDie(parent, NoDie, <<>>)
  /\ UNCHANGED elf

\* ++it on an iterator that is not end()
ChildrenNext ==
  /\ conv.op = "Children"
  /\ ~IsNull(conv.die_)
  /\ conv' = AtDie(conv.parent, IncrementDie(elf.debug_info, conv.die_),
                   conv.children)
  /\ UNCHANGED elf

InitDie ==
  /\ InitTracee(TRUE)
  /\ elf \in {[debug_info |-> info] : info \in Units}
  /\ conv = NoConv

NextDie ==
  \/ ElfUnchanged /\ \E parent \in 1..MaxDies :
                       parent <= Len(elf.debug_info) /\ ChildrenBegin(parent)
  \/ ElfUnchanged /\ ChildrenNext

SpecDie == InitDie /\ [][NextDie]_vars

\* the places of the direct children of the DIE at parent
DirectChildren(info, parent) ==
  IF ~info[parent].has_children THEN {}
  ELSE {q \in (parent + 1)..(EndOfChildren(info, parent) - 1) :
          info[q].code # 0 /\ Depth(info, q - 1) = Depth(info, parent)}

\* the places of a sequence are those of the set, in rising order
InOrder(children, places) ==
  /\ {children[i] : i \in 1..Len(children)} = places
  /\ \A i \in 1..(Len(children) - 1) : children[i] < children[i + 1]

(***************************************************************************)
(* C36: iterating Children() of a DIE gives its direct children in their   *)
(* stored order and no grandchild, and stops at the null entry; the        *)
(* result is the same whether a child with children is passed by its       *)
(* DW_AT_sibling or by walking its children, at every depth.               *)
(***************************************************************************)
C36_DirectChildren ==
  conv.op = "Children" =>
    /\ ~conv.die_.fault
    /\ \A i \in 1..Len(conv.children) :
         conv.children[i] \in DirectChildren(elf.debug_info, conv.parent)
    /\ \A i \in 1..(Len(conv.children) - 1) :
         conv.children[i] < conv.children[i + 1]
    /\ IsNull(conv.die_) =>
         /\ InOrder(conv.children, DirectChildren(elf.debug_info, conv.parent))
         /\ conv.die_.position = EndOfChildren(elf.debug_info, conv.parent)
              \/ ~elf.debug_info[conv.parent].has_children

\* the children of the root were given to the end: a child whose children
\* were walked, with a grandchild that has children itself, and a child
\* passed by its DW_AT_sibling
C36_Witness ==
  /\ conv.op = "Children"
  /\ conv.parent = 1
  /\ IsNull(conv.die_)
  /\ Len(conv.children) = 2
  /\ conv.children[1] = 2
  /\ elf.debug_info[2].has_children /\ ~elf.debug_info[2].sibling
  /\ elf.debug_info[3].has_children
  /\ elf.debug_info[conv.children[2]].sibling

(***************************************************************************)
(* C37: while a software breakpoint site is enabled, the byte of the       *)
(* inferior at its address is 0xCC, after any sequence of operations of    *)
(* the debugger, calls of WriteMemory over the address of the site         *)
(* included.                                                               *)
(***************************************************************************)
C37_EnabledSiteHoldsInt3 ==
  \A i \in 1..Len(breakpoint_sites_) :
    (breakpoint_sites_[i].is_enabled /\ ~breakpoint_sites_[i].is_hardware)
      => inferior.mem[breakpoint_sites_[i].address] = Int3

(***************************************************************************)
(* RemoveById and RemoveByAddress of a stoppoint that the collection does  *)
(* not hold.  FindById and FindByAddress return end(), and the functions   *)
(* dereference it and erase it: the behaviour is undefined.  The outcomes  *)
(* are the fault of the access, which ends the debugger without its        *)
(* destructors, the return with nothing changed, and the return with the   *)
(* last stoppoint erased, not disabled.  None of them raises sdb::Error.   *)
(***************************************************************************)
Crashed == "SIGSEGV"

RemoveAbsentOp == "Remove, absent"

EndOutcomes == {"fault", "returned", "erased"}

\* (**it).Disable(); stoppoints_.erase(it); with it = end()
RemoveAtEnd(s, points, outcome) ==
  IF outcome = "fault" THEN [s EXCEPT !.err = Crashed, !.dropped = TRUE]
  ELSE IF outcome = "erased" /\ s[points] # <<>>
  THEN [s EXCEPT ![points] = Erase(@, Len(@))]
  ELSE s

\* GetBreakpointSites().RemoveById(id), no site with the id
RemoveAbsentSiteById(id, outcome) ==
  /\ Idle
  /\ ~ContainsId(breakpoint_sites_, id)
  /\ Commit(RemoveAtEnd(Cur, "breakpoint_sites_", outcome), RemoveAbsentOp)

\* GetBreakpointSites().RemoveByAddress(address), no site at the address
RemoveAbsentSiteByAddress(address, outcome) ==
  /\ Idle
  /\ ~ContainsAddress(breakpoint_sites_, address)
  /\ Commit(RemoveAtEnd(Cur, "breakpoint_sites_", outcome), RemoveAbsentOp)

\* GetWatchpoints().RemoveById(id), no watchpoint with the id
RemoveAbsentWatchpointById(id, outcome) ==
  /\ Idle
  /\ ~ContainsId(watchpoints_, id)
  /\ Commit(RemoveAtEnd(Cur, "watchpoints_", outcome), RemoveAbsentOp)

\* GetWatchpoints().RemoveByAddress(address), no watchpoint at the address
RemoveAbsentWatchpointByAddress(address, outcome) ==
  /\ Idle
  /\ ~ContainsAddress(watchpoints_, address)
  /\ Commit(RemoveAtEnd(Cur, "watchpoints_", outcome), RemoveAbsentOp)

InitRemove == InitProcess(TRUE)

NextRemove ==
  \/ \E a \in BpAddrs, h \in BOOLEAN : CreateBreakpointSite(a, h, FALSE)
  \/ CreateWatchpoint(DataBase, "write", 1)
  \/ \E a \in BpAddrs : EnableSiteAt(a)
  \/ \E id \in Ids : EnableWatchpoint(id)
  \/ \E id \in Ids : RemoveSiteById(id)
  \/ \E id \in Ids : RemoveWatchpointById(id)
  \/ \E id \in Ids, outcome \in EndOutcomes :
       RemoveAbsentSiteById(id, outcome)
  \/ \E a \in BpAddrs, outcome \in EndOutcomes :
       RemoveAbsentSiteByAddress(a, outcome)
  \/ \E id \in Ids, outcome \in EndOutcomes :
       RemoveAbsentWatchpointById(id, outcome)
  \/ \E outcome \in EndOutcomes :
       RemoveAbsentWatchpointByAddress(DataBase, outcome)

SpecRemove == InitRemove /\ [][NextRemove]_vars

(***************************************************************************)
(* C38: RemoveById with an id that the collection does not hold, and       *)
(* RemoveByAddress with an address that it does not hold, fail with an     *)
(* error and leave the collection and the inferior as they were.           *)
(***************************************************************************)
C38_RemoveAbsentFails ==
  [][last_op' = RemoveAbsentOp =>
       /\ err' \notin {NoErr, Crashed}
       /\ UNCHANGED <<breakpoint_sites_, watchpoints_, inferior>>]_vars

(***************************************************************************)
(* SpecNest: SpecSys with the whole call of WaitOnSignal as one step.  A   *)
(* pass that resumes the inferior from a syscall stop that the policy does *)
(* not catch is blocked in the nested WaitOnSignal; the inferior runs the  *)
(* next instruction of runs, and when it has stopped again the nested call *)
(* makes its pass.  log holds the requests of all the passes of the call.  *)
(***************************************************************************)
RECURSIVE WaitOnSignalCall(_, _, _)
WaitOnSignalCall(s, c, runs) ==
  LET pass == WaitOnSignal(s, c) IN
  IF runs = <<>> \/ ~Ok(pass) \/ ~pass.in_wait \/ pass.inferior.task # "run"
  THEN pass
  ELSE LET ran == [pass EXCEPT
                     !.inferior = [InferiorStep(@, Head(runs))
                                     EXCEPT !.executed = <<>>]]
       IN IF CanWait(ran.inferior)
          THEN WaitOnSignalCall(ran, c, Tail(runs))
          ELSE ran

DoWaitOnSignalCall(c, runs) ==
  /\ ~dropped
  /\ ~in_wait
  /\ CanWait(inferior)
  /\ Commit(WaitOnSignalCall(Cur, c, runs), "WaitOnSignal")

MaxNested == 2

InitNest == InitProcess(TRUE)

NextNest ==
  \/ CreateBreakpointSite(0, FALSE, FALSE)
  \/ \E id \in Ids : EnableSite(id)
  \/ \E info \in Policies : SetSyscallCatchPolicy(info)
  \/ \E c \in ResumeInstrs(SysInstrs) : DoResume(c)
  \/ \E c \in SysInstrs : DoStepInstruction(c)
  \/ \E c \in WaitInstrs(SysInstrs), runs \in [1..MaxNested -> SysInstrs] :
       DoWaitOnSignalCall(c, runs)
  \/ in_wait /\ \E c \in WaitInstrs(SysInstrs) : DoWaitOnSignal(c)
  \/ \E c \in SysInstrs : InferiorRun(c)

SpecNest == InitNest /\ [][NextNest]_vars

\* the number of waitpid calls among the requests
RECURSIVE Waits(_)
Waits(requests) ==
  IF requests = <<>> THEN 0
  ELSE (IF Head(requests).req = "WAITPID" THEN 1 ELSE 0)
         + Waits(Tail(requests))

(***************************************************************************)
(* C39: whenever WaitOnSignal returns a StopReason r, Process::state()     *)
(* equals r.reason, also when syscall stops that the policy does not catch *)
(* were resumed and waited for again inside the call.                      *)
(***************************************************************************)
C39_StateIsReturnedReason ==
  (last_op \in {"WaitOnSignal", "StepInstruction"} /\ ~in_wait /\ err = NoErr)
    => state_ = ret.reason

\* WaitOnSignal has returned a stop after it resumed the inferior from a
\* syscall stop and waited again
C39_Witness ==
  /\ last_op = "WaitOnSignal"
  /\ ~in_wait
  /\ err = NoErr
  /\ Waits(log) >= 2
  /\ ret.reason = "Stopped"

\* the debug-register indexes that the enabled hardware stoppoints hold,
\* one for each stoppoint
HeldIndexes ==
  [k \in {k \in 1..Len(breakpoint_sites_) :
            breakpoint_sites_[k].is_enabled
              /\ breakpoint_sites_[k].is_hardware}
     |-> breakpoint_sites_[k].hardware_register_index]
  @@ [k \in {Len(breakpoint_sites_) + k : k \in
               {k \in 1..Len(watchpoints_) : watchpoints_[k].is_enabled}}
        |-> watchpoints_[k - Len(breakpoint_sites_)].hardware_register_index]

(***************************************************************************)
(* C40: after any sequence of Enable, Disable and remove operations, no    *)
(* two enabled hardware stoppoints hold the same debug-register index, and *)
(* the index of every enabled hardware stoppoint is in 0..3.               *)
(***************************************************************************)
C40_DistinctIndexes ==
  /\ \A k \in DOMAIN HeldIndexes : HeldIndexes[k] \in 0..(NumDebugRegs - 1)
  /\ \A k, l \in DOMAIN HeldIndexes :
       k # l => HeldIndexes[k] # HeldIndexes[l]

\* of two hardware sites one was removed; the watchpoint was enabled after
\* the site that is left and holds the slot below it
C40_Witness ==
  /\ last_op = StoppointOp
  /\ err = NoErr
  /\ site_next_id = 2
  /\ Len(breakpoint_sites_) = 1
  /\ breakpoint_sites_[1].is_enabled
  /\ breakpoint_sites_[1].hardware_register_index = 1
  /\ Len(watchpoints_) = 1
  /\ watchpoints_[1].is_enabled
  /\ watchpoints_[1].hardware_register_index = 0

====
